---- MODULE Spec2Model ----
(***************************************************************************)
(* Model of the smart-investor portfolio ledger: PortfolioModel            *)
(* (addHolding / removeHolding) and PortfolioManager (createPortfolio,     *)
(* deletePortfolio, buyStock, sellStock, generateRecommendations,          *)
(* executeRecommendation) with its three JSON files; beside it the         *)
(* MarketDataService batch fetch, the tools/call handler of the MCP server *)
(* and the connection state of MCPMarketDataClient.                        *)
(*                                                                         *)
(* Numbers.  Quantities, prices and cash are integers.  averageCost is the *)
(* quotient of two of them, kept as an exact fraction <<n, d>> with d > 0; *)
(* the values a JavaScript division by zero produces are kept too:         *)
(* <<1,0>> is Infinity, <<-1,0>> is -Infinity and <<0,0>> is NaN.  Finite  *)
(* arithmetic is exact (the rounding of IEEE doubles is not modelled).     *)
(***************************************************************************)
EXTENDS Integers, Sequences, FiniteSets, TLC

\* ------------------------------------------------------------------ bounds
MaxPortfolios == 1
MaxTransactions == 2
MaxRecommendations == 1
MaxQuantity == 2
MaxWriteFailures == 1
MinQuantity == 0 - 1

\* ------------------------------------------------------------ input domains
Symbols == {"A", "B"}
Prices == {1, 5}
Capitals == {0, 10}
Quantities == MinQuantity..MaxQuantity
PosQuantities == 1..MaxQuantity
PortfolioIds == 1..MaxPortfolios
RecommendationIds == 1..MaxRecommendations

\* outcome of marketData.getCurrentPrice: a price, or a thrown provider error
FetchFailed == 0
FetchOutcomes == Prices \cup {FetchFailed}

\* an optional quantity: <<>> when undefined, <<q>> when set to q
NoQuantity == <<>>
SomeQuantity(q) == <<q>>
NoError == "ok"

\* a timestamp: <<"Date", t>> is a Date object of instant t, <<"string", t>>
\* the ISO string JSON.stringify writes for it, <<>> an undefined one.  The
\* instant of a transaction's timestamp is the rank of its creation (the
\* only instants the ledger compares); every other stamp carries Epoch.
Epoch == 0
NoDate == <<>>
DateValue(t) == <<"Date", t>>
IsoString(t) == <<"string", t>>

\* Date.prototype.toJSON under JSON.stringify: a Date becomes its ISO string
JsonDate(d) == IF d # NoDate /\ d[1] = "Date" THEN IsoString(d[2]) ELSE d

\* new Date(isoString)
ReviveDate(d) == IF d # NoDate /\ d[1] = "string" THEN DateValue(d[2]) ELSE d

\* Holding.currentPrice?: <<>> until a valuation sets it, <<x>> afterwards
NoCurrentPrice == <<>>
SomeCurrentPrice(x) == <<x>>

\* --------------------------------------------------- JavaScript number model
Abs(x) == IF x < 0 THEN 0 - x ELSE x
Sign(x) == IF x < 0 THEN 0 - 1 ELSE IF x > 0 THEN 1 ELSE 0

RECURSIVE GCD(_, _)
GCD(a, b) == IF b = 0 THEN a ELSE GCD(b, a % b)

\* the fraction n/d in lowest terms; d = 0 gives Infinity, -Infinity or NaN
Num(n, d) ==
    IF d = 0 THEN <<Sign(n), 0>>
    ELSE LET g == GCD(Abs(n), Abs(d))
             s == Sign(d)
         IN <<(s * n) \div g, (s * d) \div g>>

FromInt(i) == <<i, 1>>
NaN == <<0, 0>>
IsNaN(x) == x = NaN
IsFinite(x) == x[2] # 0
IsInfinite(x) == x[2] = 0 /\ x[1] # 0

NumAdd(x, y) ==
    IF IsNaN(x) \/ IsNaN(y) THEN NaN
    ELSE IF IsInfinite(x) /\ IsInfinite(y) THEN (IF x = y THEN x ELSE NaN)
    ELSE IF IsInfinite(x) THEN x
    ELSE IF IsInfinite(y) THEN y
    ELSE Num(x[1] * y[2] + y[1] * x[2], x[2] * y[2])

NumMul(x, y) ==
    IF IsNaN(x) \/ IsNaN(y) THEN NaN
    ELSE IF IsInfinite(x) \/ IsInfinite(y)
         THEN <<Sign(x[1]) * Sign(y[1]), 0>>
    ELSE Num(x[1] * y[1], x[2] * y[2])

\* x / y where y is an integer-valued sum of quantities (never -0)
NumDiv(x, y) ==
    IF IsNaN(x) \/ IsNaN(y) THEN NaN
    ELSE IF IsInfinite(x) /\ IsInfinite(y) THEN NaN
    ELSE IF IsInfinite(x) THEN <<x[1] * (IF y[1] < 0 THEN 0 - 1 ELSE 1), 0>>
    ELSE IF IsInfinite(y) THEN FromInt(0)
    ELSE IF y[1] = 0 THEN <<Sign(x[1]), 0>>
    ELSE Num(x[1] * y[2], x[2] * y[1])

NumSub(x, y) == NumAdd(x, NumMul(FromInt(0 - 1), y))

\* ------------------------------------------------------------------- state
VARIABLES
    portfolios,           \* PortfolioManager.portfolios: id -> Portfolio data
    transactions,         \* PortfolioManager.transactions
    recommendations,      \* PortfolioManager.recommendations
    portfoliosFile,       \* content of portfolios.json
    transactionsFile,     \* content of transactions.json
    recommendationsFile,  \* content of recommendations.json
    nextPortfolioId,      \* the next fresh uuid of a portfolio
    nextTransactionId,    \* the next fresh uuid of a transaction
    recommendationTrades, \* history: recommendation id -> number of
                          \* transactions its executions have appended
    realizedGains,        \* history: portfolio id -> sum over its sells of
                          \* quantity * (price - averageCost when sold)
    writeFailures,        \* how many file writes have failed so far
    lastCall,             \* the last call made on the manager, on the market
                          \* data service or on the MCP client, and its outcome
    cli,                  \* two concurrent CLI processes: where each is in
                          \* its command and its own manager's collections
    lastWriter,           \* history: which process wrote each file last
    batchCall,            \* the getBatchPrices call of the last step, if it
                          \* made one: the symbols asked for and what Yahoo
                          \* Finance answered
    mcpClient,            \* MCPMarketDataClient: config.mcpServer.enabled, the
                          \* connected field, history of how the last
                          \* connect() or disconnect() ended, and the last
                          \* call with the requests it sent
    toolCall              \* the last tools/call exchange of the MCP server:
                          \* request, result and the calls it made on
                          \* MarketDataService

vars == <<portfolios, transactions, recommendations, portfoliosFile,
          transactionsFile, recommendationsFile, nextPortfolioId,
          nextTransactionId, recommendationTrades, realizedGains,
          writeFailures, lastCall, cli, lastWriter, batchCall, mcpClient,
          toolCall>>

memory == <<portfolios, transactions, recommendations>>
files == <<portfoliosFile, transactionsFile, recommendationsFile>>

\* ------------------------------------------------------------ PortfolioModel
\* new PortfolioModel(name, initialCapital)
NewPortfolio(initialCapital) ==
    [initialCapital |-> initialCapital,
     currentCash |-> initialCapital,
     createdAt |-> DateValue(Epoch),
     holdings |-> <<>>]

\* this.data.holdings.find(h => h.symbol === symbol): index of the first
\* match, 0 when there is none
FindHolding(holdings, symbol) ==
    IF \E i \in 1..Len(holdings) : holdings[i].symbol = symbol
    THEN CHOOSE i \in 1..Len(holdings) :
            /\ holdings[i].symbol = symbol
            /\ \A j \in 1..(i - 1) : holdings[j].symbol # symbol
    ELSE 0

\* this.data.holdings.filter(h => h.symbol !== symbol)
FilterOut(holdings, symbol) ==
    SelectSeq(holdings, LAMBDA h : h.symbol # symbol)

\* a further buy that takes the latest price as the average cost
MergeHolding_LastPrice(h, quantity, price) ==
    [h EXCEPT !.quantity = h.quantity + quantity,
              !.averageCost = FromInt(price),
              !.lastUpdated = DateValue(Epoch)]

\* a further buy that averages the two prices without weighting them
MergeHolding_PlainMean(h, quantity, price) ==
    [h EXCEPT !.quantity = h.quantity + quantity,
              !.averageCost = NumDiv(NumAdd(h.averageCost, FromInt(price)), FromInt(2)),
              !.lastUpdated = DateValue(Epoch)]

\* the existing holding after a further buy: weighted-average cost
MergeHolding(h, quantity, price) ==
    LET totalQuantity == h.quantity + quantity
        totalCost == NumAdd(NumMul(h.averageCost, FromInt(h.quantity)),
                            FromInt(price * quantity))
    IN [h EXCEPT !.averageCost = NumDiv(totalCost, FromInt(totalQuantity)),
                 !.quantity = totalQuantity,
                 !.lastUpdated = DateValue(Epoch)]

\* addHolding without its funds check
addHolding_NoFundsCheck(data, symbol, quantity, price) ==
    LET i == FindHolding(data.holdings, symbol)
    IN [error |-> NoError,
        data |-> [data EXCEPT
            !.holdings =
                IF i # 0
                THEN [@ EXCEPT ![i] = MergeHolding(@, quantity, price)]
                ELSE Append(@, [symbol |-> symbol,
                                quantity |-> quantity,
                                averageCost |-> FromInt(price),
                                currentPrice |-> NoCurrentPrice,
                                lastUpdated |-> DateValue(Epoch)]),
            !.currentCash = @ - quantity * price]]

\* addHolding that never looks for an existing holding of the symbol
addHolding_AlwaysPush(data, symbol, quantity, price) ==
    IF quantity * price > data.currentCash
    THEN [error |-> "Insufficient funds", data |-> data]
    ELSE [error |-> NoError,
          data |-> [data EXCEPT
            !.holdings = Append(@, [symbol |-> symbol,
                                    quantity |-> quantity,
                                    averageCost |-> FromInt(price),
                                    currentPrice |-> NoCurrentPrice,
                                    lastUpdated |-> DateValue(Epoch)]),
            !.currentCash = @ - quantity * price]]

\* PortfolioModel.addHolding: the data after the call and the error thrown
addHolding(data, symbol, quantity, price) ==
    LET totalCost == quantity * price
        i == FindHolding(data.holdings, symbol)
    IN IF totalCost > data.currentCash
       THEN [error |-> "Insufficient funds", data |-> data]
       ELSE [error |-> NoError,
             data |-> [data EXCEPT
                !.holdings =
                    IF i # 0
                    THEN [@ EXCEPT ![i] = MergeHolding(@, quantity, price)]
                    ELSE Append(@, [symbol |-> symbol,
                                    quantity |-> quantity,
                                    averageCost |-> FromInt(price),
                                    currentPrice |-> NoCurrentPrice,
                                    lastUpdated |-> DateValue(Epoch)]),
                !.currentCash = @ - totalCost]]

\* removeHolding that forgets to credit the proceeds
removeHolding_NoCredit(data, symbol, quantity, price) ==
    LET i == FindHolding(data.holdings, symbol)
    IN IF i = 0
       THEN [error |-> "No holding found", data |-> data]
       ELSE IF data.holdings[i].quantity < quantity
       THEN [error |-> "Insufficient shares to sell", data |-> data]
       ELSE [error |-> NoError,
             data |-> [data EXCEPT
                !.holdings =
                    IF @[i].quantity = quantity
                    THEN FilterOut(@, symbol)
                    ELSE [@ EXCEPT ![i].quantity = @ - quantity,
                                   ![i].lastUpdated = DateValue(Epoch)]]]

\* removeHolding without its check of the held quantity
removeHolding_NoShareCheck(data, symbol, quantity, price) ==
    LET i == FindHolding(data.holdings, symbol)
    IN IF i = 0
       THEN [error |-> "No holding found", data |-> data]
       ELSE [error |-> NoError,
             data |-> [data EXCEPT
                !.currentCash = @ + quantity * price,
                !.holdings =
                    IF @[i].quantity = quantity
                    THEN FilterOut(@, symbol)
                    ELSE [@ EXCEPT ![i].quantity = @ - quantity,
                                   ![i].lastUpdated = DateValue(Epoch)]]]

\* removeHolding that drops the holding on every sale
removeHolding_DropsHolding(data, symbol, quantity, price) ==
    LET i == FindHolding(data.holdings, symbol)
        sellValue == quantity * price
    IN IF i = 0
       THEN [error |-> "No holding found", data |-> data]
       ELSE IF data.holdings[i].quantity < quantity
       THEN [error |-> "Insufficient shares to sell", data |-> data]
       ELSE [error |-> NoError,
             data |-> [data EXCEPT
                !.currentCash = @ + sellValue,
                !.holdings = FilterOut(@, symbol)]]

\* removeHolding that lowers the average cost along with the quantity
removeHolding_RescaledCost(data, symbol, quantity, price) ==
    LET i == FindHolding(data.holdings, symbol)
        sellValue == quantity * price
    IN IF i = 0
       THEN [error |-> "No holding found", data |-> data]
       ELSE IF data.holdings[i].quantity < quantity
       THEN [error |-> "Insufficient shares to sell", data |-> data]
       ELSE [error |-> NoError,
             data |-> [data EXCEPT
                !.currentCash = @ + sellValue,
                !.holdings =
                    IF @[i].quantity = quantity
                    THEN FilterOut(@, symbol)
                    ELSE [@ EXCEPT ![i].quantity = @ - quantity,
                                   ![i].averageCost =
                                        NumDiv(NumMul(@, FromInt(data.holdings[i].quantity - quantity)),
                                               FromInt(data.holdings[i].quantity)),
                                   ![i].lastUpdated = DateValue(Epoch)]]]

\* PortfolioModel.removeHolding
removeHolding(data, symbol, quantity, price) ==
    LET i == FindHolding(data.holdings, symbol)
        sellValue == quantity * price
    IN IF i = 0
       THEN [error |-> "No holding found", data |-> data]
       ELSE IF data.holdings[i].quantity < quantity
       THEN [error |-> "Insufficient shares to sell", data |-> data]
       ELSE [error |-> NoError,
             data |-> [data EXCEPT
                !.currentCash = @ + sellValue,
                !.holdings =
                    IF @[i].quantity = quantity
                    THEN FilterOut(@, symbol)
                    ELSE [@ EXCEPT ![i].quantity = @ - quantity,
                                   ![i].lastUpdated = DateValue(Epoch)]]]

\* ---------------------------------------------------------- PortfolioManager
\* The manager's collections and files as one record, so that one operation
\* can be applied to the result of another (executeRecommendation calls
\* buyStock and sellStock).
Store == [portfolios |-> portfolios,
          transactions |-> transactions,
          recommendations |-> recommendations,
          portfoliosFile |-> portfoliosFile,
          transactionsFile |-> transactionsFile,
          recommendationsFile |-> recommendationsFile]

\* JSON.stringify of a number: a non-finite number is written as null
JsonNull == <<"null">>
JsonNumber(x) == IF IsFinite(x) THEN x ELSE JsonNull

\* JSON.stringify of an optional number: undefined is left out
JsonOptional(x) == IF x = <<>> THEN x ELSE <<JsonNumber(x[1])>>

\* JSON.stringify(Array.from(this.portfolios.values()).map(p => p.toData()))
PortfoliosJson(ps) ==
    [id \in DOMAIN ps |->
        [ps[id] EXCEPT
            !.createdAt = JsonDate(@),
            !.holdings =
                [k \in 1..Len(@) |->
                    [@[k] EXCEPT !.averageCost = JsonNumber(@),
                                 !.currentPrice = JsonOptional(@),
                                 !.lastUpdated = JsonDate(@)]]]]

\* JSON.stringify(this.transactions): quantity and price are finite numbers
TransactionsJson(ts) ==
    [k \in 1..Len(ts) |-> [ts[k] EXCEPT !.timestamp = JsonDate(@)]]

\* JSON.stringify(this.recommendations): an undefined quantity or executedAt
\* is left out, a set quantity is an integer
RecommendationsJson(rs) ==
    [k \in 1..Len(rs) |-> [rs[k] EXCEPT !.createdAt = JsonDate(@),
                                        !.executedAt = JsonDate(@)]]

\* the result of a manager call: the store after it, the error it threw
\* (NoError when it returned) and the price it applied to the ledger
Result(store, error, price) == [store |-> store, error |-> error, price |-> price]

NoPrice == 0

WriteErrors == {"Failed to save portfolios", "Failed to save transactions",
                "Failed to save recommendations"}

\* savePortfolios that logs a failed write and returns
savePortfolios_Swallow(S, writeOk) ==
    IF writeOk
    THEN Result([S EXCEPT !.portfoliosFile = PortfoliosJson(S.portfolios)], NoError, NoPrice)
    ELSE Result(S, NoError, NoPrice)

\* PortfolioManager.savePortfolios: writeOk tells whether fs.writeFile succeeds
savePortfolios(S, writeOk) ==
    IF writeOk
    THEN Result([S EXCEPT !.portfoliosFile = PortfoliosJson(S.portfolios)], NoError, NoPrice)
    ELSE Result(S, "Failed to save portfolios", NoPrice)

saveTransactions(S, writeOk) ==
    IF writeOk
    THEN Result([S EXCEPT !.transactionsFile = TransactionsJson(S.transactions)], NoError, NoPrice)
    ELSE Result(S, "Failed to save transactions", NoPrice)

saveRecommendations(S, writeOk) ==
    IF writeOk
    THEN Result([S EXCEPT !.recommendationsFile = RecommendationsJson(S.recommendations)], NoError, NoPrice)
    ELSE Result(S, "Failed to save recommendations", NoPrice)

\* the two saves in the other order
saveBoth_TransactionsFirst(S, price, portfoliosOk, transactionsOk) ==
    LET r1 == saveTransactions(S, transactionsOk)
        r2 == savePortfolios(r1.store, portfoliosOk)
    IN IF r1.error # NoError THEN Result(r1.store, r1.error, price)
       ELSE Result(r2.store, r2.error, price)

\* await this.savePortfolios(); await this.saveTransactions();
saveBoth(S, price, portfoliosOk, transactionsOk) ==
    LET r1 == savePortfolios(S, portfoliosOk)
        r2 == saveTransactions(r1.store, transactionsOk)
    IN IF r1.error # NoError THEN Result(r1.store, r1.error, price)
       ELSE Result(r2.store, r2.error, price)

\* uuidv4() of a new transaction: one more than every id given out so far
NewTransaction(id, portfolioId, symbol, type, quantity, price) ==
    [id |-> id, portfolioId |-> portfolioId, symbol |-> symbol,
     type |-> type, quantity |-> quantity, price |-> price,
     timestamp |-> DateValue(id)]

\* buyStock that appends its transaction before it has a price
buyStock_LogBeforeFetch(S, txId, portfolioId, symbol, quantity, fetch, portfoliosOk, transactionsOk) ==
    IF portfolioId \notin DOMAIN S.portfolios
    THEN Result(S, "Portfolio not found", NoPrice)
    ELSE IF fetch = FetchFailed
    THEN Result([S EXCEPT !.transactions = Append(@,
                    NewTransaction(txId, portfolioId, symbol, "BUY", quantity, NoPrice))],
                "Price fetch failed", NoPrice)
    ELSE IF quantity * fetch > S.portfolios[portfolioId].currentCash
    THEN Result(S, "Insufficient funds", fetch)
    ELSE LET r == addHolding(S.portfolios[portfolioId], symbol, quantity, fetch)
         IN IF r.error # NoError
            THEN Result(S, r.error, fetch)
            ELSE saveBoth([S EXCEPT
                    !.portfolios[portfolioId] = r.data,
                    !.transactions = Append(@,
                        NewTransaction(txId, portfolioId, symbol, "BUY", quantity, fetch))],
                    fetch, portfoliosOk, transactionsOk)

\* PortfolioManager.buyStock; fetch is what getCurrentPrice gives
buyStock(S, txId, portfolioId, symbol, quantity, fetch, portfoliosOk, transactionsOk) ==
    IF portfolioId \notin DOMAIN S.portfolios
    THEN Result(S, "Portfolio not found", NoPrice)
    ELSE IF fetch = FetchFailed
    THEN Result(S, "Price fetch failed", NoPrice)
    ELSE IF quantity * fetch > S.portfolios[portfolioId].currentCash
    THEN Result(S, "Insufficient funds", fetch)
    ELSE LET r == addHolding(S.portfolios[portfolioId], symbol, quantity, fetch)
         IN IF r.error # NoError
            THEN Result(S, r.error, fetch)
            ELSE saveBoth([S EXCEPT
                    !.portfolios[portfolioId] = r.data,
                    !.transactions = Append(@,
                        NewTransaction(txId, portfolioId, symbol, "BUY", quantity, fetch))],
                    fetch, portfoliosOk, transactionsOk)

\* sellStock that records its sale as a BUY
sellStock_LogsBuy(S, txId, portfolioId, symbol, quantity, fetch, portfoliosOk, transactionsOk) ==
    IF portfolioId \notin DOMAIN S.portfolios
    THEN Result(S, "Portfolio not found", NoPrice)
    ELSE IF fetch = FetchFailed
    THEN Result(S, "Price fetch failed", NoPrice)
    ELSE LET r == removeHolding(S.portfolios[portfolioId], symbol, quantity, fetch)
         IN IF r.error # NoError
            THEN Result(S, r.error, fetch)
            ELSE saveBoth([S EXCEPT
                    !.portfolios[portfolioId] = r.data,
                    !.transactions = Append(@,
                        NewTransaction(txId, portfolioId, symbol, "BUY", quantity, fetch))],
                    fetch, portfoliosOk, transactionsOk)

\* PortfolioManager.sellStock
sellStock(S, txId, portfolioId, symbol, quantity, fetch, portfoliosOk, transactionsOk) ==
    IF portfolioId \notin DOMAIN S.portfolios
    THEN Result(S, "Portfolio not found", NoPrice)
    ELSE IF fetch = FetchFailed
    THEN Result(S, "Price fetch failed", NoPrice)
    ELSE LET r == removeHolding(S.portfolios[portfolioId], symbol, quantity, fetch)
         IN IF r.error # NoError
            THEN Result(S, r.error, fetch)
            ELSE saveBoth([S EXCEPT
                    !.portfolios[portfolioId] = r.data,
                    !.transactions = Append(@,
                        NewTransaction(txId, portfolioId, symbol, "SELL", quantity, fetch))],
                    fetch, portfoliosOk, transactionsOk)

\* recommendations.find(r => r.id === recommendationId): index, 0 if none
FindRecommendation(rs, recommendationId) ==
    IF \E i \in 1..Len(rs) : rs[i].id = recommendationId
    THEN CHOOSE i \in 1..Len(rs) :
            /\ rs[i].id = recommendationId
            /\ \A j \in 1..(i - 1) : rs[j].id # recommendationId
    ELSE 0

\* a test that takes only an undefined quantity as unset
Falsy_UndefinedOnly(quantity) == quantity = NoQuantity

\* !recommendation.quantity
Falsy(quantity) == quantity = NoQuantity \/ quantity = SomeQuantity(0)

\* Math.floor((cash * 0.1) / price)
DerivedQuantity(cash, price) == cash \div (10 * price)

\* which ledger call executeRecommendation delegates to for a recommendation
Delegate(rec) ==
    IF rec.action = "BUY" /\ ~Falsy(rec.quantity) THEN "buyStock"
    ELSE IF rec.action = "SELL" /\ ~Falsy(rec.quantity) THEN "sellStock"
    ELSE "none"

\* PortfolioManager.executeRecommendation; sizingFetch is the price fetched
\* to derive a quantity, fetch the one the delegated buyStock/sellStock gets
executeRecommendation(S, txId, recommendationId, sizingFetch, fetch, portfoliosOk, transactionsOk, recommendationsOk) ==
    LET i == FindRecommendation(S.recommendations, recommendationId)
    IN IF i = 0
       THEN Result(S, "Recommendation not found", NoPrice)
       ELSE LET rec == S.recommendations[i]
                derive == Falsy(rec.quantity) /\ rec.action = "BUY"
            IN IF rec.executed
               THEN Result(S, "Recommendation has already been executed", NoPrice)
               ELSE IF rec.portfolioId \notin DOMAIN S.portfolios
               THEN Result(S, "Portfolio not found", NoPrice)
               ELSE IF derive /\ sizingFetch = FetchFailed
               THEN Result(S, "Price fetch failed", NoPrice)
               ELSE
                 LET S1 == IF derive
                           THEN [S EXCEPT !.recommendations[i].quantity =
                                   SomeQuantity(DerivedQuantity(
                                     S.portfolios[rec.portfolioId].currentCash,
                                     sizingFetch))]
                           ELSE S
                     rec1 == S1.recommendations[i]
                     r == IF Delegate(rec1) = "buyStock"
                          THEN buyStock(S1, txId, rec1.portfolioId, rec1.symbol,
                                        rec1.quantity[1], fetch, portfoliosOk, transactionsOk)
                          ELSE IF Delegate(rec1) = "sellStock"
                          THEN sellStock(S1, txId, rec1.portfolioId, rec1.symbol,
                                         rec1.quantity[1], fetch, portfoliosOk, transactionsOk)
                          ELSE Result(S1, NoError, NoPrice)
                 IN IF r.error # NoError
                    THEN r
                    ELSE LET r2 == saveRecommendations(
                                     [r.store EXCEPT !.recommendations[i].executed = TRUE,
                                                     !.recommendations[i].executedAt = DateValue(Epoch)],
                                     recommendationsOk)
                         IN Result(r2.store, r2.error, r.price)

\* PortfolioManager.createPortfolio with the fresh id the constructor drew
createPortfolio(S, id, initialCapital, portfoliosOk) ==
    savePortfolios([S EXCEPT !.portfolios =
                        [k \in DOMAIN @ \cup {id} |->
                            IF k = id THEN NewPortfolio(initialCapital) ELSE @[k]]],
                   portfoliosOk)

\* const deleted = this.portfolios.delete(portfolioId)
deleted(S, portfolioId) == portfolioId \in DOMAIN S.portfolios

\* deletePortfolio that also drops the deleted portfolio's recommendations
deletePortfolio_DropsRecommendations(S, portfolioId, portfoliosOk, transactionsOk) ==
    IF portfolioId \in DOMAIN S.portfolios
    THEN saveBoth([S EXCEPT
            !.portfolios = [k \in DOMAIN @ \ {portfolioId} |-> @[k]],
            !.transactions = SelectSeq(@, LAMBDA t : t.portfolioId # portfolioId),
            !.recommendations = SelectSeq(@, LAMBDA r : r.portfolioId # portfolioId)],
            NoPrice, portfoliosOk, transactionsOk)
    ELSE Result(S, NoError, NoPrice)

\* deletePortfolio that keeps the deleted portfolio's transactions
deletePortfolio_KeepTransactions(S, portfolioId, portfoliosOk, transactionsOk) ==
    IF portfolioId \in DOMAIN S.portfolios
    THEN saveBoth([S EXCEPT
            !.portfolios = [k \in DOMAIN @ \ {portfolioId} |-> @[k]]],
            NoPrice, portfoliosOk, transactionsOk)
    ELSE Result(S, NoError, NoPrice)

\* PortfolioManager.deletePortfolio; the Result's error is NoError when the
\* call returned (true or false)
deletePortfolio(S, portfolioId, portfoliosOk, transactionsOk) ==
    IF portfolioId \in DOMAIN S.portfolios
    THEN saveBoth([S EXCEPT
            !.portfolios = [k \in DOMAIN @ \ {portfolioId} |-> @[k]],
            !.transactions = SelectSeq(@, LAMBDA t : t.portfolioId # portfolioId)],
            NoPrice, portfoliosOk, transactionsOk)
    ELSE Result(S, NoError, NoPrice)

\* AIResearchEngine.generateRecommendations pushes one record per selected
\* company: a BUY without quantity, not executed
NewRecommendation(id, portfolioId, symbol) ==
    [id |-> id, portfolioId |-> portfolioId, symbol |-> symbol,
     action |-> "BUY", quantity |-> NoQuantity,
     createdAt |-> DateValue(Epoch), executed |-> FALSE, executedAt |-> NoDate]

\* PortfolioManager.generateRecommendations; symbol is the company the
\* research engine selected
generateRecommendations(S, portfolioId, symbol, recommendationsOk) ==
    IF portfolioId \notin DOMAIN S.portfolios
    THEN Result(S, "Portfolio not found", NoPrice)
    ELSE saveRecommendations(
            [S EXCEPT !.recommendations =
                Append(@, NewRecommendation(Len(@) + 1, portfolioId, symbol))],
            recommendationsOk)

\* ----------------------------------------------------------------- actions
\* what the caller of a manager method observes: the method and the error it
\* threw (NoError when it returned); requests lists the symbol lists the
\* call asked getBatchPrices for
Call(op, r) == [op |-> op, error |-> r.error, returned |-> <<>>, requests |-> <<>>]

\* the same for a method that returns a value: <<value>> when it returned
Returned(op, r, value) ==
    [op |-> op, error |-> r.error,
     returned |-> IF r.error = NoError THEN <<value>> ELSE <<>>,
     requests |-> <<>>]

\* the exploration stops once MaxTransactions transactions have been created
LogOpen == nextTransactionId <= MaxTransactions

\* the call appended a SELL transaction to the log ts
NewSale(ts) ==
    /\ Len(ts) > 0
    /\ ts[Len(ts)].id = nextTransactionId
    /\ ts[Len(ts)].type = "SELL"

\* the manager after a call with result r, and the history variables; r is
\* bound to a value first, so that the call is computed once per step
ApplyLedger(r) ==
  \E res \in {r} :
    /\ portfolios' = res.store.portfolios
    /\ transactions' = res.store.transactions
    /\ recommendations' = res.store.recommendations
    /\ portfoliosFile' = res.store.portfoliosFile
    /\ transactionsFile' = res.store.transactionsFile
    /\ recommendationsFile' = res.store.recommendationsFile
    /\ nextTransactionId' =
          IF \E k \in 1..Len(res.store.transactions) :
                res.store.transactions[k].id = nextTransactionId
          THEN nextTransactionId + 1
          ELSE nextTransactionId
    /\ realizedGains' =
          IF NewSale(res.store.transactions)
          THEN LET t == res.store.transactions[Len(res.store.transactions)]
                   hs == portfolios[t.portfolioId].holdings
                   sold == hs[FindHolding(hs, t.symbol)]
               IN [realizedGains EXCEPT ![t.portfolioId] =
                      NumAdd(@, NumMul(FromInt(t.quantity),
                                       NumSub(FromInt(t.price), sold.averageCost)))]
          ELSE realizedGains
    /\ writeFailures' = IF res.error \in WriteErrors THEN writeFailures + 1
                                                  ELSE writeFailures
    /\ UNCHANGED <<cli, lastWriter, mcpClient, toolCall>>

\* no concurrent CLI process is running
NoProcesses == <<>>
NoWriter == [portfolios |-> 0, transactions |-> 0]
NoBatchCall == [symbols |-> <<>>, batch |-> <<>>, singles |-> <<>>]

\* no request has been sent to the server
NoToolCall ==
    [name |-> "", arguments |-> <<>>, error |-> NoError, result |-> <<>>,
     marketData |-> <<>>]

\* new MCPMarketDataClient(): connected = false
NewClient(enabled) ==
    [enabled |-> enabled, connected |-> FALSE, settled |-> "new", pending |-> 0]

\* a call that makes no getBatchPrices request
Apply(r) == ApplyLedger(r) /\ batchCall' = NoBatchCall

Init ==
    /\ portfolios = <<>>
    /\ transactions = <<>>
    /\ recommendations = <<>>
    /\ portfoliosFile = <<>>
    /\ transactionsFile = <<>>
    /\ recommendationsFile = <<>>
    /\ nextPortfolioId = 1
    /\ nextTransactionId = 1
    /\ realizedGains = [i \in PortfolioIds |-> FromInt(0)]
    /\ writeFailures = 0
    /\ recommendationTrades = [i \in RecommendationIds |-> 0]
    /\ lastCall = [op |-> "new", error |-> NoError, returned |-> <<>>, requests |-> <<>>]
    /\ cli = NoProcesses
    /\ lastWriter = NoWriter
    /\ batchCall = NoBatchCall
    /\ mcpClient = NewClient(TRUE)
    /\ toolCall = NoToolCall

CreatePortfolio(initialCapital, portfoliosOk) ==
    /\ nextPortfolioId <= MaxPortfolios
    /\ LET r == createPortfolio(Store, nextPortfolioId, initialCapital, portfoliosOk)
       IN /\ Apply(r)
          /\ lastCall' = Call("createPortfolio", r)
    /\ nextPortfolioId' = nextPortfolioId + 1
    /\ UNCHANGED recommendationTrades

DeletePortfolio(portfolioId, portfoliosOk, transactionsOk) ==
    /\ LET r == deletePortfolio(Store, portfolioId, portfoliosOk, transactionsOk)
       IN /\ Apply(r)
          /\ lastCall' = Returned("deletePortfolio", r, deleted(Store, portfolioId))
    /\ UNCHANGED <<nextPortfolioId, recommendationTrades>>

BuyStock(portfolioId, symbol, quantity, fetch, portfoliosOk, transactionsOk) ==
    /\ LET r == buyStock(Store, nextTransactionId, portfolioId, symbol, quantity,
                         fetch, portfoliosOk, transactionsOk)
       IN /\ LogOpen
          /\ Apply(r)
          /\ lastCall' = Call("buyStock", r)
    /\ UNCHANGED <<nextPortfolioId, recommendationTrades>>

SellStock(portfolioId, symbol, quantity, fetch, portfoliosOk, transactionsOk) ==
    /\ LET r == sellStock(Store, nextTransactionId, portfolioId, symbol, quantity,
                          fetch, portfoliosOk, transactionsOk)
       IN /\ LogOpen
          /\ Apply(r)
          /\ lastCall' = Call("sellStock", r)
    /\ UNCHANGED <<nextPortfolioId, recommendationTrades>>

GenerateRecommendations(portfolioId, symbol, recommendationsOk) ==
    /\ Len(recommendations) < MaxRecommendations
    /\ LET r == generateRecommendations(Store, portfolioId, symbol, recommendationsOk)
       IN /\ Apply(r)
          /\ lastCall' = Call("generateRecommendations", r)
    /\ UNCHANGED <<nextPortfolioId, recommendationTrades>>

ExecuteRecommendation(recommendationId, sizingFetch, fetch, portfoliosOk, transactionsOk, recommendationsOk) ==
    /\ LET r == executeRecommendation(Store, nextTransactionId, recommendationId,
                    sizingFetch, fetch, portfoliosOk, transactionsOk, recommendationsOk)
           traded == Len(r.store.transactions) > Len(transactions)
       IN /\ LogOpen
          /\ Apply(r)
          /\ lastCall' = Call("executeRecommendation", r)
          /\ recommendationTrades' =
                IF traded
                THEN [recommendationTrades EXCEPT ![recommendationId] = @ + 1]
                ELSE recommendationTrades
    /\ UNCHANGED nextPortfolioId

\* The environment of one call: what each price fetch gives and whether each
\* file write succeeds.  A call stops at its first failure, so the steps after
\* a failed one are never reached and are listed as succeeding; a write may
\* fail only while fewer than MaxWriteFailures writes have failed.
WriteOutcomes == IF writeFailures < MaxWriteFailures THEN BOOLEAN ELSE {TRUE}

TradeEnvs ==
    {e \in [fetch : FetchOutcomes, portfoliosOk : WriteOutcomes,
            transactionsOk : WriteOutcomes] :
        /\ e.fetch = FetchFailed => e.portfoliosOk
        /\ ~e.portfoliosOk => e.transactionsOk}

ExecuteEnvs ==
    {e \in [sizingFetch : FetchOutcomes, fetch : FetchOutcomes,
            portfoliosOk : WriteOutcomes, transactionsOk : WriteOutcomes,
            recommendationsOk : WriteOutcomes] :
        /\ e.sizingFetch = FetchFailed => e.fetch = FetchFailed
        /\ e.fetch = FetchFailed => e.portfoliosOk
        /\ ~e.portfoliosOk => e.transactionsOk
        /\ ~e.transactionsOk => e.recommendationsOk}

DeleteEnvs ==
    {e \in [portfoliosOk : WriteOutcomes, transactionsOk : WriteOutcomes] :
        ~e.portfoliosOk => e.transactionsOk}

\* one call on the manager, with trade quantities drawn from Qs
NextOver(Qs) ==
    \/ \E c \in Capitals, ok \in WriteOutcomes : CreatePortfolio(c, ok)
    \/ \E p \in PortfolioIds, e \in DeleteEnvs :
            DeletePortfolio(p, e.portfoliosOk, e.transactionsOk)
    \/ \E p \in PortfolioIds, s \in Symbols, q \in Qs, e \in TradeEnvs :
            BuyStock(p, s, q, e.fetch, e.portfoliosOk, e.transactionsOk)
    \/ \E p \in PortfolioIds, s \in Symbols, q \in Qs, e \in TradeEnvs :
            SellStock(p, s, q, e.fetch, e.portfoliosOk, e.transactionsOk)
    \/ \E p \in PortfolioIds, s \in Symbols, ok \in WriteOutcomes :
            GenerateRecommendations(p, s, ok)
    \/ \E r \in RecommendationIds, e \in ExecuteEnvs :
            ExecuteRecommendation(r, e.sizingFetch, e.fetch, e.portfoliosOk,
                                  e.transactionsOk, e.recommendationsOk)

\* any caller of the PortfolioManager API: buyStock and sellStock take any
\* integer quantity
Next == NextOver(Quantities)

\* callers that pass positive quantities only, as the CLI's buy and sell
\* commands do (they return before the call when quantity <= 0)
NextPositive == NextOver(PosQuantities)

Spec == Init /\ [][Next]_vars

SpecPositive == Init /\ [][NextPositive]_vars

\* --------------------------------------------------------- MarketDataService
\* a Map<string, number>: a function from the keys set so far
EmptyMap == [x \in {} |-> 0]
MapSet(map, key, value) ==
    [x \in DOMAIN map \cup {key} |-> IF x = key THEN value ELSE map[x]]

\* The batch request either fails (axios throws, or the response has no
\* chart.result) or gives a list of results.  A result carries meta.symbol
\* and a price (0 when neither regularMarketPrice nor previousClose is
\* truthy), or has no meta at all, and reading result.meta.symbol throws.
BatchFailed == [ok |-> FALSE, results |-> <<>>]
BatchAnswer(results) == [ok |-> TRUE, results |-> results]
BatchResult(symbol, price) == [hasMeta |-> TRUE, symbol |-> symbol, price |-> price]
NoMeta == [hasMeta |-> FALSE, symbol |-> "", price |-> 0]

\* one round of the fallback loop that stores 0 for a symbol whose fetch
\* throws
FetchInto_ZeroOnFailure(prices, symbol, single) ==
    MapSet(prices, symbol, IF single # FetchFailed THEN single ELSE 0)

\* one round of the fallback loop: the price is stored unless
\* getCurrentPrice throws, which the inner catch only logs
FetchInto(prices, symbol, single) ==
    IF single # FetchFailed THEN MapSet(prices, symbol, single) ELSE prices

RECURSIVE Fallback(_, _, _, _)
\* the catch block of getBatchPrices from the i-th symbol on: one
\* getCurrentPrice per symbol, singles[i] being what the i-th one gives
Fallback(symbols, singles, i, prices) ==
    IF i > Len(symbols) THEN prices
    ELSE Fallback(symbols, singles, i + 1,
                  FetchInto(prices, symbols[i], singles[i]))

RECURSIVE BatchLoop(_, _, _, _, _)
\* the for loop over data.chart.result from the k-th result on
BatchLoop(symbols, batch, singles, k, prices) ==
    IF k > Len(batch) THEN prices
    ELSE IF ~batch[k].hasMeta THEN Fallback(symbols, singles, 1, prices)
    ELSE BatchLoop(symbols, batch, singles, k + 1,
                   IF batch[k].price # 0
                   THEN MapSet(prices, batch[k].symbol, batch[k].price)
                   ELSE prices)

\* MarketDataService.getBatchPrices: the Map it returns (it never throws)
getBatchPrices(symbols, batch, singles) ==
    IF ~batch.ok
    THEN Fallback(symbols, singles, 1, EmptyMap)
    ELSE BatchLoop(symbols, batch.results, singles, 1, EmptyMap)

\* ------------------------------------------------------------------ queries
\* the result of a manager call that returns a value
ResultWith(store, error, value) ==
    [store |-> store, error |-> error, price |-> NoPrice, value |-> value,
     requests |-> <<>>]

Metrics(totalValue, initialCapital, unrealizedGains) ==
    [totalValue |-> totalValue,
     totalReturns |-> NumSub(totalValue, FromInt(initialCapital)),
     percentageReturns |->
        NumMul(NumDiv(NumSub(totalValue, FromInt(initialCapital)),
                      FromInt(initialCapital)),
               FromInt(100)),
     unrealizedGains |-> unrealizedGains,
     realizedGains |-> FromInt(0),
     timestamp |-> DateValue(Epoch)]

\* a price lookup that counts a missing price as 0
PriceUsed_ZeroWhenMissing(currentPrices, h) ==
    IF h.symbol \in DOMAIN currentPrices /\ currentPrices[h.symbol] # 0
    THEN FromInt(currentPrices[h.symbol])
    ELSE FromInt(0)

\* currentPrices.get(holding.symbol) || holding.averageCost
PriceUsed(currentPrices, h) ==
    IF h.symbol \in DOMAIN currentPrices /\ currentPrices[h.symbol] # 0
    THEN FromInt(currentPrices[h.symbol])
    ELSE h.averageCost

RECURSIVE ValueLoop(_, _, _, _, _)
\* the for loop of calculateTotalValue from the k-th holding on: the totals
\* and the holdings with currentPrice overwritten
ValueLoop(holdings, currentPrices, k, totalValue, unrealizedGains) ==
    IF k > Len(holdings)
    THEN [totalValue |-> totalValue, unrealizedGains |-> unrealizedGains,
          holdings |-> holdings]
    ELSE LET h == holdings[k]
             currentPrice == PriceUsed(currentPrices, h)
             holdingValue == NumMul(FromInt(h.quantity), currentPrice)
             costBasis == NumMul(FromInt(h.quantity), h.averageCost)
         IN ValueLoop([holdings EXCEPT ![k].currentPrice = SomeCurrentPrice(currentPrice)],
                      currentPrices, k + 1,
                      NumAdd(totalValue, holdingValue),
                      NumAdd(unrealizedGains, NumSub(holdingValue, costBasis)))

\* PortfolioModel.calculateTotalValue: the metrics and the data afterwards
calculateTotalValue(data, currentPrices) ==
    LET l == ValueLoop(data.holdings, currentPrices, 1,
                       FromInt(data.currentCash), FromInt(0))
    IN [metrics |-> Metrics(l.totalValue, data.initialCapital, l.unrealizedGains),
        data |-> [data EXCEPT !.holdings = l.holdings]]

\* holdings.map(h => h.symbol)
SymbolsOf(holdings) == [k \in 1..Len(holdings) |-> holdings[k].symbol]

\* getPortfolioPerformance without the test for an empty holding list
getPortfolioPerformance_AlwaysFetch(S, portfolioId, batch, singles) ==
    IF portfolioId \notin DOMAIN S.portfolios
    THEN ResultWith(S, "Portfolio not found", <<>>)
    ELSE LET data == S.portfolios[portfolioId]
             c == calculateTotalValue(data,
                     getBatchPrices(SymbolsOf(data.holdings), batch, singles))
         IN [ResultWith([S EXCEPT !.portfolios[portfolioId] = c.data],
                        NoError, c.metrics)
                EXCEPT !.requests = <<SymbolsOf(data.holdings)>>]

\* PortfolioManager.getPortfolioPerformance; requests is what it asks
\* marketData.getBatchPrices for
getPortfolioPerformance(S, portfolioId, batch, singles) ==
    IF portfolioId \notin DOMAIN S.portfolios
    THEN ResultWith(S, "Portfolio not found", <<>>)
    ELSE LET data == S.portfolios[portfolioId]
         IN IF Len(data.holdings) = 0
            THEN ResultWith(S, NoError,
                    Metrics(FromInt(data.currentCash), data.initialCapital, FromInt(0)))
            ELSE LET c == calculateTotalValue(data,
                            getBatchPrices(SymbolsOf(data.holdings), batch, singles))
                 IN [ResultWith([S EXCEPT !.portfolios[portfolioId] = c.data],
                                NoError, c.metrics)
                        EXCEPT !.requests = <<SymbolsOf(data.holdings)>>]

RECURSIVE InsertByTime(_, _)
\* t put into a list sorted by decreasing timestamp, behind the entries that
\* are not older (Array.prototype.sort is stable)
InsertByTime(sorted, t) ==
    IF sorted = <<>> THEN <<t>>
    ELSE IF sorted[1].timestamp[2] >= t.timestamp[2]
         THEN <<sorted[1]>> \o InsertByTime(Tail(sorted), t)
         ELSE <<t>> \o sorted

RECURSIVE SortByTime(_)
\* .sort((a, b) => b.timestamp.getTime() - a.timestamp.getTime())
SortByTime(ts) ==
    IF ts = <<>> THEN <<>>
    ELSE InsertByTime(SortByTime(SubSeq(ts, 1, Len(ts) - 1)), ts[Len(ts)])

\* getTransactionHistory that sorts the log itself and then filters it
getTransactionHistory_SortInPlace(S, portfolioId) ==
    ResultWith([S EXCEPT !.transactions = SortByTime(@)], NoError,
        SelectSeq(SortByTime(S.transactions), LAMBDA t : t.portfolioId = portfolioId))

\* PortfolioManager.getTransactionHistory: filter makes a new array, which is
\* the one sorted
getTransactionHistory(S, portfolioId) ==
    ResultWith(S, NoError,
        SortByTime(SelectSeq(S.transactions, LAMBDA t : t.portfolioId = portfolioId)))

\* ------------------------------------------------------ a new CLI process
\* PortfolioManager.loadPortfolios on a new manager: JSON.parse, then
\* PortfolioModel.fromData({...portfolioData, createdAt: new Date(...)}); a
\* missing file leaves the Map empty
loadPortfolios(file) ==
    [id \in DOMAIN file |-> [file[id] EXCEPT !.createdAt = ReviveDate(@)]]

\* PortfolioManager.loadTransactions: {...t, timestamp: new Date(t.timestamp)}
loadTransactions(file) ==
    [k \in 1..Len(file) |-> [file[k] EXCEPT !.timestamp = ReviveDate(@)]]

\* PortfolioManager.loadRecommendations: createdAt: new Date(r.createdAt),
\* executedAt: r.executedAt ? new Date(r.executedAt) : undefined
loadRecommendations(file) ==
    [k \in 1..Len(file) |->
        [file[k] EXCEPT !.createdAt = ReviveDate(@),
                        !.executedAt = IF @ = NoDate THEN NoDate ELSE ReviveDate(@)]]

\* new PortfolioManager() followed by initialize()
initialize(S) ==
    Result([S EXCEPT !.portfolios = loadPortfolios(S.portfoliosFile),
                     !.transactions = loadTransactions(S.transactionsFile),
                     !.recommendations = loadRecommendations(S.recommendationsFile)],
           NoError, NoPrice)

\* the process ends and the next CLI command starts on the files it left
Initialize ==
    /\ LET r == initialize(Store)
       IN /\ Apply(r)
          /\ lastCall' = Call("initialize", r)
    /\ UNCHANGED <<nextPortfolioId, recommendationTrades>>

\* CLI commands with positive quantities, each possibly in a new process
NextSession ==
    \/ NextPositive
    \/ Initialize

SpecSession == Init /\ [][NextSession]_vars

\* ------------------------------------------------------------ the queries
GetTransactionHistory(portfolioId) ==
    /\ LET r == getTransactionHistory(Store, portfolioId)
       IN /\ Apply(r)
          /\ lastCall' = Returned("getTransactionHistory", r, r.value)
    /\ UNCHANGED <<nextPortfolioId, recommendationTrades>>

GetPortfolioPerformance(portfolioId, batch, singles) ==
    /\ \E r \in {getPortfolioPerformance(Store, portfolioId, batch, singles)} :
          /\ ApplyLedger(r)
          /\ batchCall' = IF r.requests = <<>> THEN NoBatchCall
                          ELSE [symbols |-> r.requests[1], batch |-> batch,
                                singles |-> singles]
          /\ lastCall' = [Returned("getPortfolioPerformance", r, r.value)
                            EXCEPT !.requests = r.requests]
    /\ UNCHANGED <<nextPortfolioId, recommendationTrades>>

\* getPortfolio(portfolioId).calculateTotalValue(currentPrices)
CalculateTotalValue(portfolioId, currentPrices) ==
    /\ portfolioId \in DOMAIN portfolios
    /\ \E c \in {calculateTotalValue(portfolios[portfolioId], currentPrices)} :
       \E r \in {ResultWith([Store EXCEPT !.portfolios[portfolioId] = c.data],
                           NoError, c.metrics)} :
          /\ Apply(r)
          /\ lastCall' = Returned("calculateTotalValue", r, r.value)
    /\ UNCHANGED <<nextPortfolioId, recommendationTrades>>

\* the price maps getBatchPrices can return: some symbols, each with a price
PriceMaps == UNION {[keys -> Prices] : keys \in SUBSET Symbols}

\* the symbols getPortfolioPerformance asks prices for
HeldSymbols(portfolioId) ==
    IF portfolioId \in DOMAIN portfolios
    THEN SymbolsOf(portfolios[portfolioId].holdings)
    ELSE <<>>

\* the results with meta a batch answer can hold for one requested symbol:
\* its price, or no price
ResultsFor(symbol) ==
    {BatchResult(symbol, price) : price \in Prices \cup {0}}

RECURSIVE AnswersFor(_)
\* the result lists that hold one result per requested symbol, in order, up
\* to the first result without meta (the loop reads none behind it)
AnswersFor(symbols) ==
    IF symbols = <<>> THEN {<<>>}
    ELSE {<<NoMeta>>} \cup
         {<<r>> \o rest : r \in ResultsFor(symbols[1]),
                          rest \in AnswersFor(Tail(symbols))}

\* the answers to a batch request for these symbols
BatchOutcomes(symbols) ==
    {BatchFailed} \cup {BatchAnswer(b) : b \in AnswersFor(symbols)}

\* the fallback runs when the batch request failed or a result has no meta
FallsBack(batch) ==
    ~batch.ok \/ \E k \in 1..Len(batch.results) : ~batch.results[k].hasMeta

\* what getCurrentPrice gives for each symbol of the fallback; the fetches
\* of a call that never falls back are never made and are listed as failed
SingleOutcomes(symbols, batch) ==
    IF FallsBack(batch)
    THEN [1..Len(symbols) -> FetchOutcomes]
    ELSE {[k \in 1..Len(symbols) |-> FetchFailed]}

\* createPortfolio, deletePortfolio, buyStock and sellStock with positive
\* quantities while every price fetch of a trade and every file write
\* succeeds, and the queries, whose price requests may fail in every way.
NextQueries ==
    \/ \E c \in Capitals : CreatePortfolio(c, TRUE)
    \/ \E p \in PortfolioIds : DeletePortfolio(p, TRUE, TRUE)
    \/ \E p \in PortfolioIds, s \in Symbols, q \in PosQuantities, f \in Prices :
            BuyStock(p, s, q, f, TRUE, TRUE)
    \/ \E p \in PortfolioIds, s \in Symbols, q \in PosQuantities, f \in Prices :
            SellStock(p, s, q, f, TRUE, TRUE)
    \/ \E p \in PortfolioIds : GetTransactionHistory(p)
    \/ \E p \in PortfolioIds :
         \E b \in BatchOutcomes(HeldSymbols(p)) :
          \E f \in SingleOutcomes(HeldSymbols(p), b) :
            GetPortfolioPerformance(p, b, f)
    \/ \E p \in PortfolioIds, m \in PriceMaps : CalculateTotalValue(p, m)

SpecQueries == Init /\ [][NextQueries]_vars

\* Every call that touches the transaction log or runs next to it: the six
\* mutating calls with positive quantities and successful fetches and
\* writes, getTransactionHistory, and the valuations; getPortfolioPerformance
\* here finds the batch request failing and each single request answering
\* or failing, which gives it every price map.
NextLog ==
    \/ \E c \in Capitals : CreatePortfolio(c, TRUE)
    \/ \E p \in PortfolioIds : DeletePortfolio(p, TRUE, TRUE)
    \/ \E p \in PortfolioIds, s \in Symbols, q \in PosQuantities, f \in Prices :
            BuyStock(p, s, q, f, TRUE, TRUE)
    \/ \E p \in PortfolioIds, s \in Symbols, q \in PosQuantities, f \in Prices :
            SellStock(p, s, q, f, TRUE, TRUE)
    \/ \E p \in PortfolioIds, s \in Symbols : GenerateRecommendations(p, s, TRUE)
    \/ \E r \in RecommendationIds, f \in Prices :
            ExecuteRecommendation(r, f, f, TRUE, TRUE, TRUE)
    \/ \E p \in PortfolioIds : GetTransactionHistory(p)
    \/ \E p \in PortfolioIds :
         \E f \in SingleOutcomes(HeldSymbols(p), BatchFailed) :
            GetPortfolioPerformance(p, BatchFailed, f)
    \/ \E p \in PortfolioIds, m \in PriceMaps : CalculateTotalValue(p, m)

SpecLog == Init /\ [][NextLog]_vars

\* ------------------------------------------------- two concurrent commands
\* Two CLI processes run one buy or sell command each on the same data
\* directory.  A process is at "start", then "loaded" (initialize is done),
\* "mutated" (the trade is in its manager's memory), "savedPortfolios" and
\* "done"; the two file writes of a trade are separate steps, which the
\* other process's steps can come between.  Reading the three files in
\* initialize is one step, and a write replaces the file in one step.
Processes == {1, 2}

\* the uuid of the transaction process i creates
RaceTransactionId(i) == MaxTransactions + i

EmptyStore ==
    [portfolios |-> <<>>, transactions |-> <<>>, recommendations |-> <<>>,
     portfoliosFile |-> <<>>, transactionsFile |-> <<>>, recommendationsFile |-> <<>>]

\* the data directories the commands start on: after createPortfolio, and
\* after a purchase of 2 shares of "A" at 1 as well
RaceStores ==
    LET created == createPortfolio(EmptyStore, 1, 10, TRUE).store
    IN {created, buyStock(created, 1, 1, "A", 2, 1, TRUE, TRUE).store}

\* fs.writeFile that appends to the file instead of replacing it
WriteFile_Append(old, content) == old \o content

\* fs.writeFile(path, content): the file's content afterwards
WriteFile(old, content) == content

\* the manager of process i as a store, on the files as they are now
CliStore(i) ==
    [Store EXCEPT !.portfolios = cli[i].portfolios,
                  !.transactions = cli[i].transactions,
                  !.recommendations = cli[i].recommendations]

\* buyStock or sellStock up to its first save: the store with the trade in
\* memory, or the error thrown before that
tradeInMemory(type, S, txId, portfolioId, symbol, quantity, fetch) ==
    LET r == IF type = "BUY"
             THEN buyStock(S, txId, portfolioId, symbol, quantity, fetch, FALSE, TRUE)
             ELSE sellStock(S, txId, portfolioId, symbol, quantity, fetch, FALSE, TRUE)
    IN IF r.error = "Failed to save portfolios"
       THEN Result(r.store, NoError, r.price)
       ELSE r

InitRace ==
    /\ \E S \in RaceStores :
          /\ portfoliosFile = S.portfoliosFile
          /\ transactionsFile = S.transactionsFile
          /\ recommendationsFile = S.recommendationsFile
    /\ portfolios = <<>>
    /\ transactions = <<>>
    /\ recommendations = <<>>
    /\ nextPortfolioId = 2
    /\ nextTransactionId = 2
    /\ realizedGains = [i \in PortfolioIds |-> FromInt(0)]
    /\ writeFailures = 0
    /\ recommendationTrades = [i \in RecommendationIds |-> 0]
    /\ lastCall = [op |-> "new", error |-> NoError, returned |-> <<>>, requests |-> <<>>]
    /\ cli = [i \in Processes |->
                [pc |-> "start", fresh |-> FALSE, portfolios |-> <<>>,
                 transactions |-> <<>>, recommendations |-> <<>>]]
    /\ lastWriter = NoWriter
    /\ batchCall = NoBatchCall
    /\ mcpClient = NewClient(TRUE)
    /\ toolCall = NoToolCall

\* await portfolioManager.initialize(); fresh records that no process had
\* written a file yet
CliInitialize(i) ==
    /\ cli[i].pc = "start"
    /\ LET r == initialize(Store)
       IN cli' = [cli EXCEPT ![i] =
                    [pc |-> "loaded", fresh |-> lastWriter = NoWriter,
                     portfolios |-> r.store.portfolios,
                     transactions |-> r.store.transactions,
                     recommendations |-> r.store.recommendations]]
    /\ UNCHANGED <<memory, files, nextPortfolioId, nextTransactionId,
                   recommendationTrades, realizedGains, writeFailures,
                   lastCall, lastWriter, batchCall, mcpClient,
                   toolCall>>

\* buyStock / sellStock until it awaits savePortfolios; a call that throws
\* ends the command
CliTrade(i, type, portfolioId, symbol, quantity, fetch) ==
    /\ cli[i].pc = "loaded"
    /\ LET r == tradeInMemory(type, CliStore(i), RaceTransactionId(i),
                              portfolioId, symbol, quantity, fetch)
       IN cli' = [cli EXCEPT ![i] =
                    [pc |-> IF r.error = NoError THEN "mutated" ELSE "done",
                     fresh |-> cli[i].fresh,
                     portfolios |-> r.store.portfolios,
                     transactions |-> r.store.transactions,
                     recommendations |-> r.store.recommendations]]
    /\ UNCHANGED <<memory, files, nextPortfolioId, nextTransactionId,
                   recommendationTrades, realizedGains, writeFailures,
                   lastCall, lastWriter, batchCall, mcpClient,
                   toolCall>>

\* await this.savePortfolios()
CliSavePortfolios(i) ==
    /\ cli[i].pc = "mutated"
    /\ portfoliosFile' = WriteFile(portfoliosFile, PortfoliosJson(cli[i].portfolios))
    /\ cli' = [cli EXCEPT ![i].pc = "savedPortfolios"]
    /\ lastWriter' = [lastWriter EXCEPT !.portfolios = i]
    /\ UNCHANGED <<memory, transactionsFile, recommendationsFile,
                   nextPortfolioId, nextTransactionId, recommendationTrades,
                   realizedGains, writeFailures, lastCall, batchCall, mcpClient,
                   toolCall>>

\* await this.saveTransactions()
CliSaveTransactions(i) ==
    /\ cli[i].pc = "savedPortfolios"
    /\ transactionsFile' = WriteFile(transactionsFile, TransactionsJson(cli[i].transactions))
    /\ cli' = [cli EXCEPT ![i].pc = "done"]
    /\ lastWriter' = [lastWriter EXCEPT !.transactions = i]
    /\ UNCHANGED <<memory, portfoliosFile, recommendationsFile,
                   nextPortfolioId, nextTransactionId, recommendationTrades,
                   realizedGains, writeFailures, lastCall, batchCall, mcpClient,
                   toolCall>>

NextRace ==
    \/ \E i \in Processes : CliInitialize(i)
    \/ \E i \in Processes, type \in {"BUY", "SELL"}, p \in PortfolioIds,
          s \in Symbols, q \in PosQuantities, f \in FetchOutcomes :
            CliTrade(i, type, p, s, q, f)
    \/ \E i \in Processes : CliSavePortfolios(i)
    \/ \E i \in Processes : CliSaveTransactions(i)

SpecRace == InitRace /\ [][NextRace]_vars

\* ------------------------------------------------------ batch price calls
\* A caller of MarketDataService alone: getBatchPrices for any list of up to
\* MaxBatch symbols, repeats included, against every answer of the batch
\* request and of the single requests of the fallback.
MaxBatch == 2

SymbolLists == UNION {[1..n -> Symbols] : n \in 0..MaxBatch}

GetBatchPrices(symbols, batch, singles) ==
    /\ batchCall' = [symbols |-> symbols, batch |-> batch, singles |-> singles]
    /\ lastCall' = [op |-> "getBatchPrices", error |-> NoError,
                    returned |-> <<getBatchPrices(symbols, batch, singles)>>,
                    requests |-> <<symbols>>]
    /\ UNCHANGED <<memory, files, nextPortfolioId, nextTransactionId,
                   recommendationTrades, realizedGains, writeFailures,
                   cli, lastWriter, mcpClient, toolCall>>

NextBatch ==
    \E symbols \in SymbolLists :
        \E batch \in BatchOutcomes(symbols) :
            \E singles \in SingleOutcomes(symbols, batch) :
                GetBatchPrices(symbols, batch, singles)

SpecBatch == Init /\ [][NextBatch]_vars

\* ------------------------------------------------------------ the MCP server
\* The values a tools/call request can carry in its arguments: undefined (or
\* absent), a string, a value of another type, an array.
Undefined == <<>>
Str(s) == <<"string", s>>
Arr(elements) == <<"array", elements>>
TypeOf(v) == IF v = Undefined THEN "undefined" ELSE v[1]

\* !v for the values above: undefined and '' are falsy
Not(v) == TypeOf(v) = "undefined" \/ (TypeOf(v) = "string" /\ v[2] = "")

\* String.prototype.toUpperCase; a value of another type has no such method
toUpperCase(s) == CASE s = "a" -> "A" [] s = "b" -> "B" [] OTHER -> s

\* what a tool method does: it returns a result or throws an Error, after
\* the calls it made on MarketDataService
Returns(text, marketData) ==
    [threw |-> FALSE, message |-> "", text |-> text, marketData |-> marketData]
Throws(message, marketData) ==
    [threw |-> TRUE, message |-> message, text |-> <<>>, marketData |-> marketData]

\* the answer of a MarketDataService method: a value (ok), or a thrown
\* error, where value holds a placeholder of the method's type, never read
ServiceAnswer(ok, value) == [ok |-> ok, value |-> value, singles |-> <<>>]

\* MarketDataMCPServer.getCurrentPrice
serverGetCurrentPrice(symbol, answer) ==
    IF Not(symbol)
    THEN Throws("Symbol is required", <<>>)
    ELSE IF TypeOf(symbol) # "string"
    THEN Throws("TypeError", <<>>)
    ELSE LET upper == toUpperCase(symbol[2])
             called == <<<<"getCurrentPrice", upper>>>>
         IN IF ~answer.ok THEN Throws("provider error", called)
            ELSE Returns([symbol |-> upper, price |-> answer.value], called)

\* MarketDataMCPServer.getHistoricalPrices
serverGetHistoricalPrices(symbol, period, answer) ==
    IF Not(symbol) \/ Not(period)
    THEN Throws("Symbol and period are required", <<>>)
    ELSE IF ~( /\ TypeOf(period) = "string"
               /\ period[2] \in {"1d", "5d", "1mo", "3mo", "6mo", "1y", "2y", "5y", "max"} )
    THEN Throws("Invalid period", <<>>)
    ELSE IF TypeOf(symbol) # "string"
    THEN Throws("TypeError", <<>>)
    ELSE LET upper == toUpperCase(symbol[2])
             called == <<<<"getHistoricalPrices", upper>>>>
         IN IF ~answer.ok THEN Throws("provider error", called)
            ELSE Returns([symbol |-> upper, period |-> period[2],
                          count |-> Len(answer.value),
                          prices |-> answer.value], called)

\* MarketDataMCPServer.getBatchPrices
serverGetBatchPrices(symbols, answer) ==
    IF Not(symbols) \/ TypeOf(symbols) # "array" \/ Len(symbols[2]) = 0
    THEN Throws("Symbols array is required", <<>>)
    ELSE IF \E k \in 1..Len(symbols[2]) : TypeOf(symbols[2][k]) # "string"
    THEN Throws("TypeError", <<>>)
    ELSE LET upper == [k \in 1..Len(symbols[2]) |-> toUpperCase(symbols[2][k][2])]
         IN Returns(getBatchPrices(upper, answer.value, answer.singles),
                    <<<<"getBatchPrices", upper>>>>)

\* MarketDataMCPServer.searchSymbols; results.slice(0, limit) with limit
\* defaulting to 10
serverSearchSymbols(query, limit, answer) ==
    IF Not(query)
    THEN Throws("Query is required", <<>>)
    ELSE LET called == <<<<"searchSymbols", query[2]>>>>
         IN IF ~answer.ok THEN Throws("provider error", called)
            ELSE LET results == answer.value
                     n == IF limit = Undefined THEN 10 ELSE limit[2]
                     limitedResults ==
                        SubSeq(results, 1, IF Len(results) < n THEN Len(results) ELSE n)
                 IN Returns([query |-> query[2], count |-> Len(limitedResults),
                             results |-> limitedResults], called)

\* MarketDataMCPServer.validateSymbol
serverValidateSymbol(symbol, answer) ==
    IF Not(symbol)
    THEN Throws("Symbol is required", <<>>)
    ELSE IF TypeOf(symbol) # "string"
    THEN Throws("TypeError", <<>>)
    ELSE LET upper == toUpperCase(symbol[2])
         IN Returns([symbol |-> upper, valid |-> answer.value],
                    <<<<"validateSymbol", upper>>>>)

\* MarketDataMCPServer.calculateMetrics; of the figures it computes the
\* result keeps which metrics were computed and over how many prices
serverCalculateMetrics(symbol, metrics, answer) ==
    IF Not(symbol) \/ Not(metrics) \/ TypeOf(metrics) # "array"
    THEN Throws("Symbol and metrics array are required", <<>>)
    ELSE IF \E k \in 1..Len(metrics[2]) : metrics[2][k] \notin {"volatility", "returns", "price_range"}
    THEN Throws("Invalid metrics", <<>>)
    ELSE IF TypeOf(symbol) # "string"
    THEN Throws("Failed to calculate metrics", <<>>)
    ELSE LET upper == toUpperCase(symbol[2])
             called == <<<<"getHistoricalPrices", upper>>>>
         IN IF ~answer.ok \/ Len(answer.value) = 0
            THEN Throws("Failed to calculate metrics", called)
            ELSE Returns([symbol |-> upper,
                          metrics |-> {metrics[2][k] : k \in 1..Len(metrics[2])},
                          dataPoints |-> Len(answer.value)], called)

ToolNames == {"get_current_price", "get_historical_prices", "get_batch_prices",
              "search_symbols", "validate_symbol", "calculate_metrics"}

\* the switch of the handler
Dispatch(name, args, answer) ==
    CASE name = "get_current_price" -> serverGetCurrentPrice(args.symbol, answer)
      [] name = "get_historical_prices" ->
            serverGetHistoricalPrices(args.symbol, args.period, answer)
      [] name = "get_batch_prices" -> serverGetBatchPrices(args.symbols, answer)
      [] name = "search_symbols" -> serverSearchSymbols(args.query, args.limit, answer)
      [] name = "validate_symbol" -> serverValidateSymbol(args.symbol, answer)
      [] name = "calculate_metrics" ->
            serverCalculateMetrics(args.symbol, args.metrics, answer)
      [] OTHER -> Throws(<<"Unknown tool: ", name>>, <<>>)

\* the CallToolRequestSchema handler, try { switch } catch { isError }: what
\* it hands back to the protocol layer is a result, or the error that
\* escaped it
CallTool_NoCatch(name, args, answer) ==
    LET o == Dispatch(name, args, answer)
    IN IF o.threw
       THEN [error |-> o.message, result |-> <<>>, marketData |-> o.marketData]
       ELSE [error |-> NoError, result |-> [isError |-> FALSE, text |-> o.text],
             marketData |-> o.marketData]

CallTool(name, args, answer) ==
    LET o == Dispatch(name, args, answer)
    IN IF o.threw
       THEN [error |-> NoError,
             result |-> [isError |-> TRUE,
                         text |-> <<"Error executing ", name, ": ", o.message>>],
             marketData |-> o.marketData]
       ELSE [error |-> NoError, result |-> [isError |-> FALSE, text |-> o.text],
             marketData |-> o.marketData]

\* the symbol of a request: absent, empty, a string, a number
SymbolValues == {Undefined, Str(""), Str("a"), Str("A"), Str("B"), <<"number", "5">>}

\* tools/call requests: each tool with the arguments it reads, and names
\* that are no tool; the arguments object holds every property the tools
\* read, undefined when the request leaves it out
ToolRequests ==
    LET NoArguments ==
            [symbol |-> Undefined, period |-> Undefined, symbols |-> Undefined,
             query |-> Undefined, limit |-> Undefined, metrics |-> Undefined]
    IN
    {[name |-> n, arguments |-> [NoArguments EXCEPT !.symbol = s]] :
        n \in {"get_current_price", "validate_symbol", "invalid_tool",
               "GET_CURRENT_PRICE"},
        s \in SymbolValues}
    \cup {[name |-> "get_historical_prices",
           arguments |-> [NoArguments EXCEPT !.symbol = s, !.period = p]] :
            s \in SymbolValues, p \in {Undefined, Str("1y"), Str("10y")}}
    \cup {[name |-> "get_batch_prices",
           arguments |-> [NoArguments EXCEPT !.symbols = s]] :
            s \in {Undefined, Str("A"), Arr(<<>>), Arr(<<Str("a")>>),
                   Arr(<<Str("A"), Str("b")>>), Arr(<<<<"number", "5">>>>)}}
    \cup {[name |-> "search_symbols",
           arguments |-> [NoArguments EXCEPT !.query = q, !.limit = l]] :
            q \in {Undefined, Str("a")}, l \in {Undefined, <<"number", 1>>}}
    \cup {[name |-> "calculate_metrics",
           arguments |-> [NoArguments EXCEPT !.symbol = s, !.metrics = m]] :
            s \in SymbolValues,
            m \in {Undefined, Str("returns"), Arr(<<"returns">>), Arr(<<"alpha">>),
                   Arr(<<"volatility", "price_range">>)}}

\* what MarketDataService would answer to the call a tool makes
ServiceAnswers(request) ==
    CASE request.name \in {"get_current_price", "invalid_tool", "GET_CURRENT_PRICE"} ->
            {ServiceAnswer(FALSE, FetchFailed)} \cup {ServiceAnswer(TRUE, p) : p \in Prices}
      [] request.name \in {"get_historical_prices", "calculate_metrics"} ->
            {ServiceAnswer(FALSE, <<>>), ServiceAnswer(TRUE, <<>>),
             ServiceAnswer(TRUE, <<1, 5>>)}
      [] request.name = "search_symbols" ->
            {ServiceAnswer(FALSE, <<>>), ServiceAnswer(TRUE, <<>>),
             ServiceAnswer(TRUE, <<"A", "B">>)}
      [] request.name = "validate_symbol" -> {ServiceAnswer(TRUE, TRUE), ServiceAnswer(TRUE, FALSE)}
      [] request.name = "get_batch_prices" ->
            LET s == request.arguments.symbols
                upper == IF TypeOf(s) = "array" /\
                            \A k \in 1..Len(s[2]) : TypeOf(s[2][k]) = "string"
                         THEN [k \in 1..Len(s[2]) |-> toUpperCase(s[2][k][2])]
                         ELSE <<>>
            IN {[ok |-> TRUE, value |-> b, singles |-> f] :
                    b \in BatchOutcomes(upper), f \in SingleOutcomes(upper, BatchFailed)}

ledger == <<memory, files, nextPortfolioId, nextTransactionId,
            recommendationTrades, realizedGains, writeFailures, lastCall, cli,
            lastWriter, batchCall>>

\* the server handles one tools/call request
ToolsCall(request, answer) ==
    /\ \E r \in {CallTool(request.name, request.arguments, answer)} :
          toolCall' = [name |-> request.name, arguments |-> request.arguments,
                       error |-> r.error, result |-> r.result,
                       marketData |-> r.marketData]
    /\ UNCHANGED <<ledger, mcpClient>>

NextServer ==
    \E request \in ToolRequests :
        \E answer \in ServiceAnswers(request) : ToolsCall(request, answer)

SpecServer == Init /\ [][NextServer]_vars

\* ------------------------------------------------------------ the MCP client
\* MCPMarketDataClient against a server that may be down: connect() awaits
\* the health check, so other calls run between its start and its end; up
\* to MaxPending connect() calls are in flight at a time.
MaxPending == 2

\* connect() after fetch(`${baseUrl}/health`) has settled: response.ok, a
\* status that is not ok, or a rejected fetch
connect_KeepsFlag(client, health) ==
    IF health = "ok"
    THEN [client EXCEPT !.connected = TRUE, !.settled = "passed"]
    ELSE [client EXCEPT !.settled = "failed"]

connect(client, health) ==
    IF health = "ok"
    THEN [client EXCEPT !.connected = TRUE, !.settled = "passed"]
    ELSE [client EXCEPT !.connected = FALSE, !.settled = "failed"]

\* callTool: the fetch is rejected or answered with a status that is not ok
\* (no body), or answered with a body { success, data, error }; it throws
\* unless there is a body that reports success or carries no error
callTool(response) ==
    IF ~response.body \/ (~response.success /\ response.error # "")
    THEN [threw |-> TRUE, success |-> FALSE, data |-> response.data]
    ELSE [threw |-> FALSE, success |-> response.success, data |-> response.data]

\* the responses to a tool call whose data is one of these values: no
\* body, success with data, failure with or without an error text
ToolResponses(data) ==
    {[body |-> b, success |-> b, error |-> "", data |-> d] : b \in BOOLEAN, d \in data}
    \cup {[body |-> TRUE, success |-> FALSE, error |-> e, data |-> d] :
            e \in {"", "Symbol is required"}, d \in data}

\* a call on the client ends: the client's fields and what the caller sees
ClientStep(client, op, error, returned, requests) ==
    /\ mcpClient' = client
    /\ lastCall' = [op |-> op, error |-> error, returned |-> returned,
                    requests |-> requests]
    /\ UNCHANGED <<memory, files, nextPortfolioId, nextTransactionId,
                   recommendationTrades, realizedGains, writeFailures, cli,
                   lastWriter, batchCall, toolCall>>

\* connect() up to its await: it throws when the server is disabled in the
\* configuration, and sends the health check otherwise
Connect ==
    IF ~mcpClient.enabled
    THEN ClientStep([mcpClient EXCEPT !.settled = "failed"], "connect",
                    "MCP Server is disabled in configuration", <<>>, <<>>)
    ELSE /\ mcpClient.pending < MaxPending
         /\ ClientStep([mcpClient EXCEPT !.pending = @ + 1], "connect", NoError,
                       <<>>, <<"health">>)

\* the rest of connect() when its health check settles
HealthCheck(health) ==
    /\ mcpClient.pending > 0
    /\ ClientStep(connect([mcpClient EXCEPT !.pending = @ - 1], health),
                  "connect settled",
                  IF health = "ok" THEN NoError ELSE "Health check failed",
                  <<>>, <<>>)

\* disconnect() is synchronous and may run while a health check is awaited
Disconnect ==
    /\ mcpClient.pending \in 0..MaxPending
    /\ ClientStep([mcpClient EXCEPT !.connected = FALSE, !.settled = "disconnected"],
                  "disconnect", NoError, <<>>, <<>>)

\* getMarketData: three tool calls, each in its own try/catch; a field is
\* set when its call returned success with truthy data (a price of 0 is
\* falsy, <<>> stands for data without the property)
GetMarketData(symbol, price, history, metrics) ==
    IF ~mcpClient.connected
    THEN ClientStep(mcpClient, "getMarketData", "MCP client not connected", <<>>, <<>>)
    ELSE LET p == callTool(price)
             h == callTool(history)
             m == callTool(metrics)
         IN ClientStep(mcpClient, "getMarketData", NoError,
                [currentPrice |-> IF ~p.threw /\ p.success /\ p.data # 0
                                  THEN <<p.data>> ELSE <<>>,
                 priceHistory |-> IF ~h.threw /\ h.success THEN h.data ELSE <<>>,
                 metrics |-> IF ~m.threw /\ m.success THEN m.data ELSE <<>>],
                <<<<"get_current_price", symbol>>, <<"get_historical_prices", symbol>>,
                  <<"calculate_metrics", symbol>>>>)

\* validateSymbol: response.success && response.data.valid || false, and
\* false when callTool throws
ValidateSymbol(symbol, response) ==
    IF ~mcpClient.connected
    THEN ClientStep(mcpClient, "validateSymbol", "MCP client not connected", <<>>, <<>>)
    ELSE LET r == callTool(response)
         IN ClientStep(mcpClient, "validateSymbol", NoError,
                       <<~r.threw /\ r.success /\ r.data>>,
                       <<<<"validate_symbol", symbol>>>>)

\* searchSymbols: response.success && response.data.results || [], and []
\* when callTool throws
SearchSymbols(query, response) ==
    IF ~mcpClient.connected
    THEN ClientStep(mcpClient, "searchSymbols", "MCP client not connected", <<>>, <<>>)
    ELSE LET r == callTool(response)
         IN ClientStep(mcpClient, "searchSymbols", NoError,
                       IF ~r.threw /\ r.success /\ r.data # <<>> THEN r.data[1] ELSE <<>>,
                       <<<<"search_symbols", query>>>>)

\* new MCPMarketDataClient() under either configuration
InitClient ==
    /\ portfolios = <<>>
    /\ transactions = <<>>
    /\ recommendations = <<>>
    /\ portfoliosFile = <<>>
    /\ transactionsFile = <<>>
    /\ recommendationsFile = <<>>
    /\ nextPortfolioId = 1
    /\ nextTransactionId = 1
    /\ realizedGains = [i \in PortfolioIds |-> FromInt(0)]
    /\ writeFailures = 0
    /\ recommendationTrades = [i \in RecommendationIds |-> 0]
    /\ lastCall = [op |-> "new", error |-> NoError, returned |-> <<>>, requests |-> <<>>]
    /\ cli = NoProcesses
    /\ lastWriter = NoWriter
    /\ batchCall = NoBatchCall
    /\ \E enabled \in BOOLEAN : mcpClient = NewClient(enabled)
    /\ toolCall = NoToolCall

NextClient ==
    \/ Connect
    \/ \E health \in {"ok", "status", "rejected"} : HealthCheck(health)
    \/ Disconnect
    \/ \E s \in Symbols, price \in ToolResponses({0, 5}),
          history \in ToolResponses({<<>>, <<1, 5>>}),
          metrics \in ToolResponses({<<>>, <<"volatility">>}) :
            GetMarketData(s, price, history, metrics)
    \/ \E s \in Symbols, response \in ToolResponses(BOOLEAN) :
            ValidateSymbol(s, response)
    \/ \E s \in Symbols, response \in ToolResponses({<<>>, <<<<>>>>, <<<<"A">>>>}) :
            SearchSymbols(s, response)

SpecClient == InitClient /\ [][NextClient]_vars

\* ------------------------------------------------ a portfolio with holdings
\* A manager whose portfolio already holds "A" and "B": the states reached
\* by createPortfolio and one purchase of each symbol, with the two
\* transactions of those purchases in the log (their ids precede the ids of
\* the trades that follow).  From there any buyStock and sellStock, with any
\* integer quantity, while fetches and writes succeed.
HeldStores ==
    LET created == createPortfolio(EmptyStore, 1, 10, TRUE).store
        bought(S, id, symbol) ==
            {buyStock(S, id, 1, symbol, q, f, TRUE, TRUE) :
                q \in PosQuantities, f \in Prices}
        first == {r.store : r \in {x \in bought(created, 0 - 1, "A") : x.error = NoError}}
    IN UNION {{r.store : r \in {x \in bought(S, 0, "B") : x.error = NoError}} :
                S \in first}

InitHeld ==
    /\ \E S \in HeldStores :
          /\ portfolios = S.portfolios
          /\ transactions = S.transactions
          /\ recommendations = S.recommendations
          /\ portfoliosFile = S.portfoliosFile
          /\ transactionsFile = S.transactionsFile
          /\ recommendationsFile = S.recommendationsFile
    /\ nextPortfolioId = 2
    /\ nextTransactionId = 1
    /\ realizedGains = [i \in PortfolioIds |-> FromInt(0)]
    /\ writeFailures = 0
    /\ recommendationTrades = [i \in RecommendationIds |-> 0]
    /\ lastCall = [op |-> "buyStock", error |-> NoError, returned |-> <<>>,
                   requests |-> <<>>]
    /\ cli = NoProcesses
    /\ lastWriter = NoWriter
    /\ batchCall = NoBatchCall
    /\ mcpClient = NewClient(TRUE)
    /\ toolCall = NoToolCall

NextHeld ==
    \/ \E p \in PortfolioIds, s \in Symbols, q \in Quantities, f \in Prices :
            BuyStock(p, s, q, f, TRUE, TRUE)
    \/ \E p \in PortfolioIds, s \in Symbols, q \in Quantities, f \in Prices :
            SellStock(p, s, q, f, TRUE, TRUE)

SpecHeld == InitHeld /\ [][NextHeld]_vars

\* --------------------------------------------- recommendations of any kind
\* InvestmentRecommendation allows BUY, SELL and HOLD with or without a
\* quantity, while the research engine only makes BUY without one; the
\* others reach a manager through recommendations.json.  Here the manager
\* has loaded a data directory with one portfolio, which holds nothing or
\* "A", and one recommendation of any kind, and is asked to execute it,
\* with fetches and writes that may fail, and to trade.
Actions == {"BUY", "SELL", "HOLD"}
StoredQuantities == {NoQuantity, SomeQuantity(0), SomeQuantity(1)}

RecommendationStores ==
    LET created == createPortfolio(EmptyStore, 1, 10, TRUE).store
        ledgers == {created} \cup
                   {r.store : r \in {buyStock(created, 0, 1, "A", q, f, TRUE, TRUE) :
                                        q \in PosQuantities, f \in Prices}}
    IN {[S EXCEPT !.recommendationsFile = RecommendationsJson(
                    <<[NewRecommendation(1, 1, s) EXCEPT !.action = a,
                                                         !.quantity = q]>>)] :
            S \in ledgers, s \in Symbols, a \in Actions, q \in StoredQuantities}

InitRecommendations ==
    /\ \E S \in RecommendationStores :
          /\ portfolios = initialize(S).store.portfolios
          /\ transactions = initialize(S).store.transactions
          /\ recommendations = initialize(S).store.recommendations
          /\ portfoliosFile = S.portfoliosFile
          /\ transactionsFile = S.transactionsFile
          /\ recommendationsFile = S.recommendationsFile
    /\ nextPortfolioId = 2
    /\ nextTransactionId = 1
    /\ realizedGains = [i \in PortfolioIds |-> FromInt(0)]
    /\ writeFailures = 0
    /\ recommendationTrades = [i \in RecommendationIds |-> 0]
    /\ lastCall = [op |-> "initialize", error |-> NoError, returned |-> <<>>,
                   requests |-> <<>>]
    /\ cli = NoProcesses
    /\ lastWriter = NoWriter
    /\ batchCall = NoBatchCall
    /\ mcpClient = NewClient(TRUE)
    /\ toolCall = NoToolCall

NextRecommendations ==
    \/ \E p \in PortfolioIds, s \in Symbols, q \in PosQuantities, f \in Prices :
            BuyStock(p, s, q, f, TRUE, TRUE)
    \/ \E p \in PortfolioIds, s \in Symbols, q \in PosQuantities, f \in Prices :
            SellStock(p, s, q, f, TRUE, TRUE)
    \/ \E r \in RecommendationIds, e \in ExecuteEnvs :
            ExecuteRecommendation(r, e.sizingFetch, e.fetch, e.portfoliosOk,
                                  e.transactionsOk, e.recommendationsOk)

SpecRecommendations == InitRecommendations /\ [][NextRecommendations]_vars

\* ------------------------------------------------------- several portfolios
\* The manager after createPortfolio has been called MaxPortfolios + 1 times
\* with the largest capital and every save succeeded.
TwoPortfolioIds == 1..(MaxPortfolios + 1)

InitTwo ==
    /\ portfolios = [i \in TwoPortfolioIds |-> NewPortfolio(10)]
    /\ portfoliosFile = PortfoliosJson([i \in TwoPortfolioIds |-> NewPortfolio(10)])
    /\ transactions = <<>>
    /\ recommendations = <<>>
    /\ transactionsFile = <<>>
    /\ recommendationsFile = <<>>
    /\ nextPortfolioId = MaxPortfolios + 2
    /\ nextTransactionId = 1
    /\ realizedGains = [i \in TwoPortfolioIds |-> FromInt(0)]
    /\ writeFailures = 0
    /\ recommendationTrades = [i \in RecommendationIds |-> 0]
    /\ lastCall = [op |-> "createPortfolio", error |-> NoError, returned |-> <<>>,
                   requests |-> <<>>]
    /\ cli = NoProcesses
    /\ lastWriter = NoWriter
    /\ batchCall = NoBatchCall
    /\ mcpClient = NewClient(TRUE)
    /\ toolCall = NoToolCall

\* trades with positive quantities on, and deletions of, these portfolios
NextTwo ==
    \/ \E p \in TwoPortfolioIds, e \in DeleteEnvs :
            DeletePortfolio(p, e.portfoliosOk, e.transactionsOk)
    \/ \E p \in TwoPortfolioIds, s \in Symbols, q \in PosQuantities, e \in TradeEnvs :
            BuyStock(p, s, q, e.fetch, e.portfoliosOk, e.transactionsOk)
    \/ \E p \in TwoPortfolioIds, s \in Symbols, q \in PosQuantities, e \in TradeEnvs :
            SellStock(p, s, q, e.fetch, e.portfoliosOk, e.transactionsOk)

SpecTwo == InitTwo /\ [][NextTwo]_vars

\* ============================================================== properties
RECURSIVE SumOver(_, _, _)
\* sum of quantity * price over the transactions of ts with the given
\* portfolio and type
SumOver(ts, portfolioId, type) ==
    IF ts = <<>> THEN 0
    ELSE (IF ts[1].portfolioId = portfolioId /\ ts[1].type = type
          THEN ts[1].quantity * ts[1].price ELSE 0)
         + SumOver(Tail(ts), portfolioId, type)

RECURSIVE CostBasis(_)
\* sum of quantity * averageCost over a holding list
CostBasis(holdings) ==
    IF holdings = <<>> THEN FromInt(0)
    ELSE NumAdd(NumMul(FromInt(holdings[1].quantity), holdings[1].averageCost),
                CostBasis(Tail(holdings)))

HasTransaction(portfolioId, type) ==
    \E k \in 1..Len(transactions) :
        transactions[k].portfolioId = portfolioId /\ transactions[k].type = type

\* C1: in every state, every portfolio's currentCash equals its
\* initialCapital minus the sum of quantity*price over its BUY transactions
\* plus the sum of quantity*price over its SELL transactions, whatever calls
\* (successful or failed) led there.
C1_CashTracksLog ==
    \A id \in DOMAIN portfolios :
        portfolios[id].currentCash =
            portfolios[id].initialCapital
            - SumOver(transactions, id, "BUY")
            + SumOver(transactions, id, "SELL")

\* a portfolio whose cash an executed buy has changed, seen after a sell
\* that failed
C1_Witness ==
    \E id \in DOMAIN portfolios :
        /\ HasTransaction(id, "BUY")
        /\ portfolios[id].currentCash # portfolios[id].initialCapital
        /\ lastCall.error = "Insufficient shares to sell"

\* C4: a buyStock whose quantity*price exceeds currentCash throws the
\* insufficient-funds error and changes neither memory (cash, holdings,
\* transaction log) nor any file; and addHolding with such arguments, on any
\* portfolio the program can hold, throws it and returns the data unchanged.
C4_BuyStockRejected ==
    \A p \in DOMAIN portfolios, s \in Symbols, q \in Quantities, e \in TradeEnvs :
        ( /\ e.fetch # FetchFailed
          /\ q * e.fetch > portfolios[p].currentCash
          /\ BuyStock(p, s, q, e.fetch, e.portfoliosOk, e.transactionsOk) )
        => /\ lastCall'.error = "Insufficient funds"
           /\ UNCHANGED <<memory, files>>

C4_AddHoldingRejected ==
    \A p \in DOMAIN portfolios, s \in Symbols, q \in Quantities, price \in Prices :
        q * price > portfolios[p].currentCash =>
            addHolding(portfolios[p], s, q, price) =
                [error |-> "Insufficient funds", data |-> portfolios[p]]

C4_InsufficientFunds == [][C4_BuyStockRejected]_vars /\ []C4_AddHoldingRejected

\* a buyStock that failed for lack of funds on a portfolio that has a holding
C4_Witness ==
    /\ lastCall.op = "buyStock"
    /\ lastCall.error = "Insufficient funds"
    /\ \E id \in DOMAIN portfolios : portfolios[id].holdings # <<>>

\* C2 as stated: currentCash + sum of quantity*averageCost over the holdings
\* equals initialCapital - sum(buy totalCost) + sum(sell proceeds).
C2_Original ==
    \A id \in DOMAIN portfolios :
        NumAdd(FromInt(portfolios[id].currentCash), CostBasis(portfolios[id].holdings)) =
            FromInt(portfolios[id].initialCapital
                    - SumOver(transactions, id, "BUY")
                    + SumOver(transactions, id, "SELL"))

\* C2 amended: after any sequence of buys and sells with positive quantities,
\* currentCash + sum of quantity*averageCost over the holdings equals
\* initialCapital plus the sum over the portfolio's sells of
\* quantity * (sale price - the holding's averageCost when sold); buys leave
\* the total unchanged.
C2_ValueConserved ==
    \A id \in DOMAIN portfolios :
        NumAdd(FromInt(portfolios[id].currentCash), CostBasis(portfolios[id].holdings)) =
            NumAdd(FromInt(portfolios[id].initialCapital), realizedGains[id])

\* a portfolio that bought at one price, sold part of it at another and
\* still holds the rest
C2_Witness ==
    \E id \in DOMAIN portfolios :
        /\ HasTransaction(id, "BUY")
        /\ HasTransaction(id, "SELL")
        /\ portfolios[id].holdings # <<>>
        /\ realizedGains[id] # FromInt(0)

\* C3: a portfolio created with initialCapital >= 0 never has negative
\* currentCash, whatever buyStock, sellStock and executeRecommendation calls
\* are made.
C3_CashNeverNegative ==
    \A id \in DOMAIN portfolios :
        portfolios[id].initialCapital >= 0 => portfolios[id].currentCash >= 0

\* C5: a sellStock of a symbol that is not held, or of more shares than are
\* held, throws the holding-not-found / insufficient-shares error and changes
\* neither memory (cash, holdings, transaction log) nor any file; and
\* removeHolding with such arguments, on any portfolio the program can hold,
\* throws it and returns the data unchanged.
SellError(data, symbol, quantity) ==
    LET i == FindHolding(data.holdings, symbol)
    IN IF i = 0 THEN "No holding found"
       ELSE IF quantity > data.holdings[i].quantity THEN "Insufficient shares to sell"
       ELSE NoError

C5_SellStockRejected ==
    \A p \in DOMAIN portfolios, s \in Symbols, q \in Quantities, e \in TradeEnvs :
        ( /\ e.fetch # FetchFailed
          /\ SellError(portfolios[p], s, q) # NoError
          /\ SellStock(p, s, q, e.fetch, e.portfoliosOk, e.transactionsOk) )
        => /\ lastCall'.error = SellError(portfolios[p], s, q)
           /\ UNCHANGED <<memory, files>>

C5_RemoveHoldingRejected ==
    \A p \in DOMAIN portfolios, s \in Symbols, q \in Quantities, price \in Prices :
        SellError(portfolios[p], s, q) # NoError =>
            removeHolding(portfolios[p], s, q, price) =
                [error |-> SellError(portfolios[p], s, q), data |-> portfolios[p]]

C5_SellRejected == [][C5_SellStockRejected]_vars /\ []C5_RemoveHoldingRejected

\* a sellStock of more shares than held that failed, the holding still there
C5_Witness ==
    /\ lastCall.op = "sellStock"
    /\ lastCall.error = "Insufficient shares to sell"
    /\ \E id \in DOMAIN portfolios : portfolios[id].holdings # <<>>

\* C6: no holding of any portfolio has quantity below 1 (a holding sold out
\* is removed, none is kept or created with quantity 0).
C6_NoEmptyHolding ==
    \A id \in DOMAIN portfolios :
        \A i \in 1..Len(portfolios[id].holdings) :
            portfolios[id].holdings[i].quantity >= 1

C8_Rejected ==
    \A p \in DOMAIN portfolios, s \in Symbols, q \in Quantities, e \in TradeEnvs :
        ( /\ q <= 0
          /\ \/ BuyStock(p, s, q, e.fetch, e.portfoliosOk, e.transactionsOk)
             \/ SellStock(p, s, q, e.fetch, e.portfoliosOk, e.transactionsOk) )
        => /\ lastCall'.error # NoError
           /\ UNCHANGED <<portfolios, transactions>>

C8_NonPositiveQuantityRejected == [][C8_Rejected]_vars

\* C9: a buy of quantity q at price p of a symbol held with quantity Q and
\* average cost A leaves the holding with quantity Q+q and averageCost
\* (A*Q + p*q)/(Q+q), so quantity*averageCost grows by exactly q*p; a first
\* buy of a symbol creates the holding with quantity q and averageCost p.
C9_BuyStep ==
    LET n == Len(transactions')
    IN (n = Len(transactions) + 1 /\ transactions'[n].type = "BUY") =>
        LET t == transactions'[n]
            before == portfolios[t.portfolioId].holdings
            after == portfolios'[t.portfolioId].holdings
            i == FindHolding(before, t.symbol)
            j == FindHolding(after, t.symbol)
        IN /\ j # 0
           /\ IF i = 0
              THEN /\ after[j].quantity = t.quantity
                   /\ after[j].averageCost = <<t.price, 1>>
              ELSE LET Q == before[i].quantity
                       A == before[i].averageCost
                   IN /\ after[j].quantity = Q + t.quantity
                      \* A = A[1]/A[2]: (A*Q + p*q)/(Q+q) in lowest terms
                      /\ after[j].averageCost[1] * (A[2] * (Q + t.quantity)) =
                            (A[1] * Q + t.price * t.quantity * A[2]) * after[j].averageCost[2]
                      /\ after[j].averageCost[2] > 0
                      /\ NumSub(NumMul(FromInt(after[j].quantity), after[j].averageCost),
                                NumMul(FromInt(Q), A))
                            = FromInt(t.quantity * t.price)

C9_WeightedAverage == [][C9_BuyStep]_vars

\* two buys of one symbol, 2 shares at 1 and then 1 share at 5: 3 shares at
\* an average cost of 7/3
C9_Witness ==
    \E id \in DOMAIN portfolios :
        \E i \in 1..Len(portfolios[id].holdings) :
            /\ portfolios[id].holdings[i].quantity = 3
            /\ portfolios[id].holdings[i].averageCost = <<7, 3>>

\* C10: executeRecommendation on a recommendation already marked executed
\* throws and changes nothing in memory, and over any sequence of calls the
\* executions of one recommendation append at most one transaction.
C10_ExecutedRejected ==
    \A r \in RecommendationIds, e \in ExecuteEnvs :
        ( /\ FindRecommendation(recommendations, r) # 0
          /\ recommendations[FindRecommendation(recommendations, r)].executed
          /\ ExecuteRecommendation(r, e.sizingFetch, e.fetch, e.portfoliosOk,
                                   e.transactionsOk, e.recommendationsOk) )
        => /\ lastCall'.error = "Recommendation has already been executed"
           /\ UNCHANGED <<memory, files>>

C10_OneTradePerRecommendation ==
    \A r \in RecommendationIds : recommendationTrades[r] <= 1

C10_ExecutesAtMostOnce ==
    [][C10_ExecutedRejected]_vars /\ []C10_OneTradePerRecommendation

\* the step flips the executed flag of the k-th recommendation to true
Flips(k) ==
    /\ k <= Len(recommendations')
    /\ ~recommendations[k].executed
    /\ recommendations'[k].executed

\* the step appended one transaction of the given type for the k-th
\* recommendation's portfolio and symbol
TradedFor(k) ==
    /\ Len(transactions') = Len(transactions) + 1
    /\ LET t == transactions'[Len(transactions')]
       IN /\ t.portfolioId = recommendations[k].portfolioId
          /\ t.symbol = recommendations[k].symbol
          /\ t.type = recommendations[k].action

\* the parts of the lifecycle that do not depend on a trade: a new
\* recommendation is not executed, the flag never goes back to false, it is
\* set only by executeRecommendation, executedAt is set exactly when the
\* flag is, and a failed call leaves the flag as it was unless the failure is
\* the final save of the recommendations
C11_Lifecycle ==
    /\ \A k \in 1..Len(recommendations') :
          /\ k > Len(recommendations) => ~recommendations'[k].executed
          /\ recommendations'[k].executed <=> recommendations'[k].executedAt # NoDate
    /\ \A k \in 1..Len(recommendations) :
          /\ k <= Len(recommendations')
          /\ recommendations[k].executed => recommendations'[k].executed
          /\ Flips(k) => /\ lastCall'.op = "executeRecommendation"
                         /\ lastCall'.error \in {NoError, "Failed to save recommendations"}

\* C11: a recommendation starts unexecuted, its executed flag only goes from
\* false to true and never back, executedAt is set exactly when the flag is,
\* and the flag is set only in an executeRecommendation step in which the
\* delegated buyStock/sellStock succeeded, i.e. appended its transaction.
C11_ExecutedOnlyAfterTrade ==
    [][C11_Lifecycle /\ \A k \in 1..Len(recommendations) : Flips(k) => TradedFor(k)]_vars

C11_LifecycleHolds == [][C11_Lifecycle]_vars

\* the transactions of ts that do not belong to portfolio p, in order
OthersOf(ts, p) == SelectSeq(ts, LAMBDA t : t.portfolioId # p)

C12_DeleteStep(p) ==
    IF p \in DOMAIN portfolios
    THEN /\ DOMAIN portfolios' = DOMAIN portfolios \ {p}
         /\ \A o \in DOMAIN portfolios' : portfolios'[o] = portfolios[o]
         /\ \A k \in 1..Len(transactions') : transactions'[k].portfolioId # p
         /\ OthersOf(transactions', p) = OthersOf(transactions, p)
         /\ recommendations' = recommendations
         /\ lastCall'.error = NoError =>
                /\ lastCall'.returned = <<TRUE>>
                /\ portfoliosFile' = PortfoliosJson(portfolios')
                /\ transactionsFile' = TransactionsJson(transactions')
    ELSE /\ lastCall'.error = NoError
         /\ lastCall'.returned = <<FALSE>>
         /\ UNCHANGED <<memory, files>>

\* C12: deletePortfolio(id) of an existing portfolio removes that portfolio
\* and exactly its transactions, leaves the other portfolios and the other
\* portfolios' transactions as they were and in the same order, and returns
\* true; of an unknown id (so also a second delete of the same id) it returns
\* false and changes nothing in memory or in the files.
C12_DeleteCascades ==
    [][\A p \in TwoPortfolioIds, e \in DeleteEnvs :
          DeletePortfolio(p, e.portfoliosOk, e.transactionsOk) => C12_DeleteStep(p)]_vars

\* portfolio 1 was deleted after a trade of each portfolio: the log keeps
\* the second transaction, of portfolio 2, alone
C12_Witness ==
    /\ lastCall.op = "deletePortfolio"
    /\ lastCall.returned = <<TRUE>>
    /\ DOMAIN portfolios = {2}
    /\ Len(transactions) = 1
    /\ transactions[1].id = 2
    /\ transactions[1].portfolioId = 2

\* every file holds what a save of the collection in memory writes
Saved ==
    /\ portfoliosFile = PortfoliosJson(portfolios)
    /\ transactionsFile = TransactionsJson(transactions)
    /\ recommendationsFile = RecommendationsJson(recommendations)

\* C13: when the three collections have been saved, a new PortfolioManager
\* that loads the files holds the same collections as the one that saved
\* them: ids, quantities, costs, and every timestamp as a Date.
C13_RoundTrip == [][(Initialize /\ Saved) => memory' = memory]_vars

\* what a buyStock or sellStock step shows of the order of its steps,
\* whatever its arguments
C14_TradeStep ==
    LET appended == Len(transactions') = Len(transactions) + 1
    IN /\ appended \/ transactions' = transactions
       /\ portfolios' # portfolios => appended
       /\ portfoliosFile' # portfoliosFile =>
            appended /\ portfoliosFile' = PortfoliosJson(portfolios')
       /\ transactionsFile' # transactionsFile =>
            /\ appended
            /\ transactionsFile' = TransactionsJson(transactions')
            /\ portfoliosFile' = PortfoliosJson(portfolios')
       /\ lastCall'.error = "Failed to save portfolios" =>
            appended /\ UNCHANGED files
       /\ lastCall'.error = "Failed to save transactions" =>
            /\ appended
            /\ portfoliosFile' = PortfoliosJson(portfolios')
            /\ transactionsFile' = transactionsFile
       /\ lastCall'.error = NoError =>
            /\ appended
            /\ portfoliosFile' = PortfoliosJson(portfolios')
            /\ transactionsFile' = TransactionsJson(transactions')

\* what the step shows of the price getCurrentPrice gave it: nothing changes
\* when the fetch failed; the transaction and the cash carry the price
C14_PriceUsed(type, p, q, fetch) ==
    /\ fetch = FetchFailed =>
            /\ lastCall'.error \in {"Price fetch failed", "Portfolio not found"}
            /\ UNCHANGED <<memory, files>>
    /\ Len(transactions') = Len(transactions) + 1 =>
            LET t == transactions'[Len(transactions')]
                sign == IF type = "BUY" THEN 0 - 1 ELSE 1
            IN /\ t.type = type /\ t.portfolioId = p /\ t.quantity = q
               /\ t.price = fetch
               /\ portfolios'[p].currentCash = portfolios[p].currentCash + sign * q * fetch

\* C14: buyStock and sellStock fetch the price, then change the ledger, then
\* append the transaction, then write portfolios.json and transactions.json:
\* a failed fetch leaves cash, holdings, the log and both files unchanged;
\* the ledger and the transaction carry the fetched price; a file is written
\* only after the ledger change and the append, and holds them.
C14_FetchMutateAppendPersist ==
    [][/\ lastCall'.op = "buyStock" =>
            /\ C14_TradeStep
            /\ \A p \in PortfolioIds, s \in Symbols, q \in Quantities, e \in TradeEnvs :
                \/ C14_PriceUsed("BUY", p, q, e.fetch)
                \/ ~BuyStock(p, s, q, e.fetch, e.portfoliosOk, e.transactionsOk)
       /\ lastCall'.op = "sellStock" =>
            /\ C14_TradeStep
            /\ \A p \in PortfolioIds, s \in Symbols, q \in Quantities, e \in TradeEnvs :
                \/ C14_PriceUsed("SELL", p, q, e.fetch)
                \/ ~SellStock(p, s, q, e.fetch, e.portfoliosOk, e.transactionsOk)]_vars

\* a sale whose price fetch failed, on a portfolio that holds shares
C14_Witness ==
    /\ lastCall.op = "sellStock"
    /\ lastCall.error = "Price fetch failed"
    /\ \E p \in DOMAIN portfolios : Len(portfolios[p].holdings) > 0
    /\ Len(transactions) = 1

\* every transaction of the log is still there after the step, unchanged and
\* at the same place; new ones come behind
C15_Kept ==
    /\ Len(transactions) <= Len(transactions')
    /\ \A k \in 1..Len(transactions) : transactions'[k] = transactions[k]

\* the step removed the transactions of one portfolio, which it deleted, and
\* kept the others as they were and in their order
C15_Cascade ==
    \E p \in DOMAIN portfolios \ DOMAIN portfolios' :
        transactions' = OthersOf(transactions, p)

C16_PriceFor(m, h) ==
    IF h.symbol \in DOMAIN m THEN FromInt(m[h.symbol]) ELSE h.averageCost

RECURSIVE C16_MarketValue(_, _)
\* sum of quantity * price used over a holding list
C16_MarketValue(holdings, m) ==
    IF holdings = <<>> THEN FromInt(0)
    ELSE NumAdd(NumMul(FromInt(holdings[1].quantity), C16_PriceFor(m, holdings[1])),
                C16_MarketValue(Tail(holdings), m))

RECURSIVE C16_Gains(_, _)
\* sum of quantity * (price used - averageCost) over a holding list
C16_Gains(holdings, m) ==
    IF holdings = <<>> THEN FromInt(0)
    ELSE NumAdd(NumMul(FromInt(holdings[1].quantity),
                       NumSub(C16_PriceFor(m, holdings[1]), holdings[1].averageCost)),
                C16_Gains(Tail(holdings), m))

C16_Returned(p, m) ==
    /\ lastCall'.error = NoError
    /\ LET v == lastCall'.returned[1]
           data == portfolios[p]
       IN /\ v.totalValue = NumAdd(FromInt(data.currentCash),
                                   C16_MarketValue(data.holdings, m))
          /\ v.unrealizedGains = C16_Gains(data.holdings, m)
          /\ v.totalReturns = NumSub(v.totalValue, FromInt(data.initialCapital))
          /\ v.realizedGains = FromInt(0)

\* C16: calculateTotalValue(priceMap) returns totalValue = currentCash + sum
\* of quantity*priceUsed and unrealizedGains = sum of
\* quantity*(priceUsed - averageCost) over the holdings, priceUsed being the
\* map's price of the symbol when it has one and the holding's averageCost
\* otherwise, totalReturns = totalValue - initialCapital and realizedGains = 0;
\* it never fails.
C16_Valuation ==
    [][lastCall'.op = "calculateTotalValue" =>
         \A p \in PortfolioIds, m \in PriceMaps :
            C16_Returned(p, m) \/ ~CalculateTotalValue(p, m)]_vars

\* a valuation of two holdings, one priced by the map above its cost and one
\* valued at its average cost
C16_Witness ==
    /\ lastCall.op = "calculateTotalValue"
    /\ lastCall.returned[1].unrealizedGains[1] > 0
    /\ \E p \in DOMAIN portfolios :
          /\ Len(portfolios[p].holdings) = 2
          /\ portfolios[p].holdings[1].currentPrice # SomeCurrentPrice(portfolios[p].holdings[1].averageCost)
          /\ portfolios[p].holdings[2].currentPrice = SomeCurrentPrice(portfolios[p].holdings[2].averageCost)

\* the call on a portfolio whose initialCapital is 0 returned metrics with
\* percentageReturns = 0
C17_ZeroPercent(p) ==
    (p \in DOMAIN portfolios /\ portfolios[p].initialCapital = 0) =>
        /\ lastCall'.error = NoError
        /\ lastCall'.returned[1].percentageReturns = FromInt(0)

\* C17: for a portfolio whose initialCapital is 0, calculateTotalValue and
\* getPortfolioPerformance return without error and report
\* percentageReturns = 0.
C17_ZeroCapital ==
    [][/\ lastCall'.op = "calculateTotalValue" =>
            \A p \in PortfolioIds, m \in PriceMaps :
                C17_ZeroPercent(p) \/ ~CalculateTotalValue(p, m)
       /\ lastCall'.op = "getPortfolioPerformance" =>
            \A p \in PortfolioIds :
             \A b \in BatchOutcomes(HeldSymbols(p)) :
              \A f \in SingleOutcomes(HeldSymbols(p), b) :
                C17_ZeroPercent(p) \/ ~GetPortfolioPerformance(p, b, f)]_vars

\* the two calls never throw on a portfolio whose initialCapital is 0
C17_NoError ==
    [][lastCall'.op \in {"calculateTotalValue", "getPortfolioPerformance"} =>
         \A p \in DOMAIN portfolios :
            portfolios[p].initialCapital = 0 => lastCall'.error = NoError]_vars

\* The write of the named file failed during the step: the caller got that
\* save's error, and neither that file nor a file saved after it was written
\* (portfolios.json is saved before transactions.json, recommendations.json
\* last).
C18_Surfaced(file) ==
    /\ recommendationsFile' = recommendationsFile
    /\ file = "portfolios" =>
            /\ lastCall'.error = "Failed to save portfolios"
            /\ UNCHANGED files
    /\ file = "transactions" =>
            /\ lastCall'.error = "Failed to save transactions"
            /\ transactionsFile' = transactionsFile
    /\ file = "recommendations" =>
            lastCall'.error = "Failed to save recommendations"
    /\ file # "recommendations" =>
            \A k \in 1..Len(recommendations) :
                recommendations'[k].executed = recommendations[k].executed

\* the first of the two ledger writes that fails, "none" if neither does
C18_LedgerWrite(portfoliosOk, transactionsOk) ==
    IF ~portfoliosOk THEN "portfolios"
    ELSE IF ~transactionsOk THEN "transactions"
    ELSE "none"

C18_Create ==
    \A c \in Capitals : C18_Surfaced("portfolios") \/ ~CreatePortfolio(c, FALSE)

C18_Delete ==
    \A p \in DOMAIN portfolios, e \in DeleteEnvs :
        \/ C18_LedgerWrite(e.portfoliosOk, e.transactionsOk) = "none"
        \/ C18_Surfaced(C18_LedgerWrite(e.portfoliosOk, e.transactionsOk))
        \/ ~DeletePortfolio(p, e.portfoliosOk, e.transactionsOk)

\* a trade reaches its saves when the same call succeeds with working writes
C18_Buy ==
    \A p \in PortfolioIds, s \in Symbols, q \in Quantities, e \in TradeEnvs :
        \/ C18_LedgerWrite(e.portfoliosOk, e.transactionsOk) = "none"
        \/ C18_Surfaced(C18_LedgerWrite(e.portfoliosOk, e.transactionsOk))
        \/ buyStock(Store, nextTransactionId, p, s, q, e.fetch, TRUE, TRUE).error # NoError
        \/ ~BuyStock(p, s, q, e.fetch, e.portfoliosOk, e.transactionsOk)

C18_Sell ==
    \A p \in PortfolioIds, s \in Symbols, q \in Quantities, e \in TradeEnvs :
        \/ C18_LedgerWrite(e.portfoliosOk, e.transactionsOk) = "none"
        \/ C18_Surfaced(C18_LedgerWrite(e.portfoliosOk, e.transactionsOk))
        \/ sellStock(Store, nextTransactionId, p, s, q, e.fetch, TRUE, TRUE).error # NoError
        \/ ~SellStock(p, s, q, e.fetch, e.portfoliosOk, e.transactionsOk)

C18_Generate ==
    \A p \in DOMAIN portfolios, s \in Symbols :
        C18_Surfaced("recommendations") \/ ~GenerateRecommendations(p, s, FALSE)

\* the first write that fails in an executeRecommendation that reaches its
\* saves: those of the delegated trade if it trades, then its own
C18_ExecuteWrite(r, e) ==
    LET ok == executeRecommendation(Store, nextTransactionId, r, e.sizingFetch,
                                    e.fetch, TRUE, TRUE, TRUE)
        trades == Len(ok.store.transactions) > Len(transactions)
    IN IF ok.error # NoError THEN "none"
       ELSE IF trades /\ C18_LedgerWrite(e.portfoliosOk, e.transactionsOk) # "none"
       THEN C18_LedgerWrite(e.portfoliosOk, e.transactionsOk)
       ELSE IF ~e.recommendationsOk THEN "recommendations"
       ELSE "none"

C18_Execute ==
    \A r \in RecommendationIds, e \in ExecuteEnvs :
        \/ e.portfoliosOk /\ e.transactionsOk /\ e.recommendationsOk
        \/ C18_ExecuteWrite(r, e) = "none"
        \/ C18_Surfaced(C18_ExecuteWrite(r, e))
        \/ ~ExecuteRecommendation(r, e.sizingFetch, e.fetch, e.portfoliosOk,
                                  e.transactionsOk, e.recommendationsOk)

\* C18: when a write of savePortfolios, saveTransactions or
\* saveRecommendations fails, the enclosing createPortfolio, buyStock,
\* sellStock, deletePortfolio, executeRecommendation (or
\* generateRecommendations) call throws that save's error and does none of
\* its remaining steps: no later file is written and the recommendation is
\* not marked executed.
C18_SaveErrorSurfaces ==
    [][/\ lastCall'.op = "createPortfolio" => C18_Create
       /\ lastCall'.op = "deletePortfolio" => C18_Delete
       /\ lastCall'.op = "buyStock" => C18_Buy
       /\ lastCall'.op = "sellStock" => C18_Sell
       /\ lastCall'.op = "generateRecommendations" => C18_Generate
       /\ lastCall'.op = "executeRecommendation" => C18_Execute]_vars

\* a buyStock whose write of transactions.json failed: portfolios.json has
\* the purchase, transactions.json does not have the transaction
C18_Witness ==
    /\ lastCall.op = "buyStock"
    /\ lastCall.error = "Failed to save transactions"
    /\ portfoliosFile = PortfoliosJson(portfolios)
    /\ transactionsFile # TransactionsJson(transactions)

\* process i traded: its log has the transaction it created
C19_Traded(i) ==
    \E k \in 1..Len(cli[i].transactions) :
        cli[i].transactions[k].id = RaceTransactionId(i)

\* both processes loaded the files before either wrote one, each made its
\* trade, and both commands are over
C19_RaceOver ==
    \A i \in Processes :
        cli[i].pc = "done" /\ cli[i].fresh /\ C19_Traded(i)

\* C19: when two CLI processes load the same files, make one trade each and
\* save without a lock, each file ends as the whole collection of the
\* process that wrote it last, and holds nothing of the other process's
\* trade: not its transaction, and a cash balance that only the writer's
\* own log accounts for.
C19_LastWriterWins ==
    C19_RaceOver =>
        LET wp == lastWriter.portfolios
            wt == lastWriter.transactions
        IN /\ portfoliosFile = PortfoliosJson(cli[wp].portfolios)
           /\ transactionsFile = TransactionsJson(cli[wt].transactions)
           /\ \A k \in 1..Len(transactionsFile) :
                 transactionsFile[k].id # RaceTransactionId(3 - wt)
           /\ \A k \in 1..Len(cli[wp].transactions) :
                 cli[wp].transactions[k].id # RaceTransactionId(3 - wp)
           /\ \A p \in DOMAIN portfoliosFile :
                 portfoliosFile[p].currentCash =
                    portfoliosFile[p].initialCapital
                    - SumOver(cli[wp].transactions, p, "BUY")
                    + SumOver(cli[wp].transactions, p, "SELL")

\* the race is over with portfolios.json written last by one process and
\* transactions.json by the other
C19_Witness ==
    /\ C19_RaceOver
    /\ lastWriter.portfolios # lastWriter.transactions

\* the indices of the requested symbols whose single fetch succeeded
C20_Fetched(symbol) ==
    {i \in 1..Len(batchCall.symbols) :
        batchCall.symbols[i] = symbol /\ batchCall.singles[i] # FetchFailed}

C20_Last(indices) == CHOOSE i \in indices : \A j \in indices : j <= i

\* C20: getBatchPrices always returns a map; when the batch request failed,
\* the map's keys are exactly the requested symbols with a successful
\* single fetch, each with the price of its last such fetch in request
\* order, so the map is empty when every single fetch failed.
C20_BestEffort ==
    lastCall.op = "getBatchPrices" =>
        /\ lastCall.error = NoError
        /\ Len(lastCall.returned) = 1
        /\ ~batchCall.batch.ok =>
              LET prices == lastCall.returned[1]
              IN /\ DOMAIN prices = {s \in Symbols : C20_Fetched(s) # {}}
                 /\ \A s \in DOMAIN prices :
                       prices[s] = batchCall.singles[C20_Last(C20_Fetched(s))]

\* the batch request failed, the first single fetch failed and a later one
\* succeeded: the map holds the later symbol only
C20_Witness ==
    /\ lastCall.op = "getBatchPrices"
    /\ ~batchCall.batch.ok
    /\ Len(batchCall.symbols) = 2
    /\ batchCall.symbols[1] # batchCall.symbols[2]
    /\ batchCall.singles[1] = FetchFailed
    /\ batchCall.singles[2] # FetchFailed
    /\ DOMAIN lastCall.returned[1] = {batchCall.symbols[2]}

\* the step appended exactly one transaction of the given type behind the
\* log as it was, and the ledger of its portfolio is the old one with that
\* transaction's quantity and price applied
C23_AppendedOne(type) ==
    /\ Len(transactions') = Len(transactions) + 1
    /\ SubSeq(transactions', 1, Len(transactions)) = transactions
    /\ LET t == transactions'[Len(transactions')]
       IN /\ t.type = type
          /\ t.portfolioId \in DOMAIN portfolios
          /\ portfolios'[t.portfolioId] =
                IF type = "BUY"
                THEN addHolding(portfolios[t.portfolioId], t.symbol, t.quantity, t.price).data
                ELSE removeHolding(portfolios[t.portfolioId], t.symbol, t.quantity, t.price).data
          /\ \A id \in DOMAIN portfolios \ {t.portfolioId} :
                portfolios'[id] = portfolios[id]

\* the appended transaction carries the arguments of the call and the price
\* the call fetched
C23_Carries(p, s, q, fetch) ==
    LET t == transactions'[Len(transactions')]
    IN t.portfolioId = p /\ t.symbol = s /\ t.quantity = q /\ t.price = fetch

\* the errors buyStock and sellStock throw before they touch the ledger
C23_EarlyErrors ==
    {"Portfolio not found", "Price fetch failed", "Insufficient funds",
     "No holding found", "Insufficient shares to sell"}

C23_Arguments ==
    /\ lastCall'.op = "buyStock" =>
          \A p \in PortfolioIds, s \in Symbols, q \in Quantities, e \in TradeEnvs :
              \/ C23_Carries(p, s, q, e.fetch)
              \/ ~BuyStock(p, s, q, e.fetch, e.portfoliosOk, e.transactionsOk)
    /\ lastCall'.op = "sellStock" =>
          \A p \in PortfolioIds, s \in Symbols, q \in Quantities, e \in TradeEnvs :
              \/ C23_Carries(p, s, q, e.fetch)
              \/ ~SellStock(p, s, q, e.fetch, e.portfoliosOk, e.transactionsOk)

\* C23 as stated: each successful buyStock or sellStock appends exactly one
\* transaction with the call's portfolioId, symbol, quantity, type and the
\* price applied to the ledger, and a failed call appends none.
C23_FailedAppendsNone ==
    [][lastCall'.op \in {"buyStock", "sellStock"} =>
          IF lastCall'.error = NoError
          THEN C23_AppendedOne(IF lastCall'.op = "buyStock" THEN "BUY" ELSE "SELL")
          ELSE transactions' = transactions]_vars

\* C23: each buyStock or sellStock that returns, or that fails in one of its
\* two saves, has appended exactly one transaction with the call's
\* portfolioId, symbol, quantity, type and the price applied to the ledger;
\* a call that fails before its saves appends none and changes no ledger.
C23_OneTransactionPerTrade ==
    [][lastCall'.op \in {"buyStock", "sellStock"} =>
          IF lastCall'.error \in C23_EarlyErrors
          THEN transactions' = transactions /\ portfolios' = portfolios
          ELSE /\ lastCall'.error \in {NoError} \cup WriteErrors
               /\ C23_AppendedOne(IF lastCall'.op = "buyStock" THEN "BUY" ELSE "SELL")
               /\ C23_Arguments]_vars

\* a sale has returned and its SELL transaction is the last of the log
C23_Witness ==
    /\ lastCall.op = "sellStock"
    /\ lastCall.error = NoError
    /\ Len(transactions) = 2
    /\ transactions[1].type = "BUY"
    /\ transactions[2].type = "SELL"
    /\ transactions[2].price # transactions[1].price

\* the degenerate metrics of a portfolio without holdings
C24_Degenerate(v, data) ==
    /\ v.totalValue = FromInt(data.currentCash)
    /\ v.totalReturns = FromInt(data.currentCash - data.initialCapital)
    /\ v.unrealizedGains = FromInt(0)

\* the call on a portfolio without holdings
C24_Empty(data) ==
    LET v == lastCall'.returned[1]
    IN /\ lastCall'.requests = <<>>
       /\ batchCall' = NoBatchCall
       /\ C24_Degenerate(v, data)
       /\ \A m \in PriceMaps :
             LET w == calculateTotalValue(data, m).metrics
             IN C24_Degenerate(w, data) /\ w.percentageReturns = v.percentageReturns

\* the call on a portfolio with holdings
C24_Held(data) ==
    LET v == lastCall'.returned[1]
    IN /\ Len(lastCall'.requests) = 1
       /\ Len(lastCall'.requests[1]) = Len(data.holdings)
       /\ \A k \in 1..Len(data.holdings) :
             lastCall'.requests[1][k] = data.holdings[k].symbol
       /\ batchCall'.symbols = lastCall'.requests[1]
       /\ LET m == getBatchPrices(batchCall'.symbols, batchCall'.batch,
                                  batchCall'.singles)
          IN /\ v.totalValue = NumAdd(FromInt(data.currentCash),
                                      C16_MarketValue(data.holdings, m))
             /\ v.unrealizedGains = C16_Gains(data.holdings, m)

\* C24: getPortfolioPerformance on a portfolio without holdings asks the
\* price provider nothing and returns totalValue = currentCash,
\* totalReturns = currentCash - initialCapital and unrealizedGains = 0, as
\* calculateTotalValue does for that portfolio with any price map; with
\* holdings it makes one batch request, for the held symbols in holding
\* order, and values the holdings with the prices that request returned.
C24_ShortCircuit ==
    [][(lastCall'.op = "getPortfolioPerformance" /\ lastCall'.error = NoError) =>
         \E p \in DOMAIN portfolios :
            IF Len(portfolios[p].holdings) = 0
            THEN C24_Empty(portfolios[p])
            ELSE C24_Held(portfolios[p])]_vars

\* getPortfolioPerformance has returned for a portfolio that has traded and
\* holds nothing: cash differs from the initial capital, no request made
C24_Witness ==
    /\ lastCall.op = "getPortfolioPerformance"
    /\ lastCall.error = NoError
    /\ lastCall.requests = <<>>
    /\ lastCall.returned[1].totalReturns[1] > 0
    /\ \E p \in DOMAIN portfolios : Len(portfolios[p].holdings) = 0

\* the step is an executeRecommendation that derived the quantity of
\* recommendation k and bought
C25_DerivedBuy(k) ==
    /\ lastCall'.op = "executeRecommendation"
    /\ recommendations[k].action = "BUY"
    /\ Falsy(recommendations[k].quantity)
    /\ ~Falsy(recommendations'[k].quantity)
    /\ Len(transactions') = Len(transactions) + 1

\* the derived quantity is floor(0.1 * cash / price) for one of the prices
\* the provider gives
C25_Derivation ==
    [][\A k \in 1..Len(recommendations) :
         C25_DerivedBuy(k) =>
            \E price \in Prices :
                recommendations'[k].quantity = SomeQuantity(DerivedQuantity(
                    portfolios[recommendations[k].portfolioId].currentCash, price))]_vars

\* C25: when executeRecommendation derives the quantity of a BUY
\* recommendation, the purchase it then makes costs at most 10% of the cash
\* the portfolio had before the purchase.
C25_TenPercentCap ==
    [][\A k \in 1..Len(recommendations) :
         C25_DerivedBuy(k) =>
            LET t == transactions'[Len(transactions')]
            IN 10 * t.quantity * t.price
                  <= portfolios[recommendations[k].portfolioId].currentCash]_vars

\* the step appended the SELL transaction t of a sale of fewer shares than
\* the portfolio held of its symbol
C26_PartialSale(t) ==
    /\ lastCall'.op = "sellStock"
    /\ Len(transactions') = Len(transactions) + 1
    /\ t = transactions'[Len(transactions')]
    /\ t.portfolioId \in DOMAIN portfolios
    /\ LET hs == portfolios[t.portfolioId].holdings
       IN /\ FindHolding(hs, t.symbol) # 0
          /\ t.quantity < hs[FindHolding(hs, t.symbol)].quantity

\* C26: a sale of fewer shares than held lowers that holding's quantity by
\* the quantity sold and raises cash by quantity * price; the holding keeps
\* its averageCost, and every other holding of the portfolio is unchanged
\* and in its place.
C26_PartialSaleFrame ==
    [][\A t \in {transactions'[k] : k \in {Len(transactions')} \ {0}} :
         C26_PartialSale(t) =>
            LET old == portfolios[t.portfolioId]
                new == portfolios'[t.portfolioId]
                i == FindHolding(old.holdings, t.symbol)
            IN /\ new.currentCash = old.currentCash + t.quantity * t.price
               /\ Len(new.holdings) = Len(old.holdings)
               /\ new.holdings[i].symbol = t.symbol
               /\ new.holdings[i].quantity = old.holdings[i].quantity - t.quantity
               /\ new.holdings[i].averageCost = old.holdings[i].averageCost
               /\ \A j \in 1..Len(old.holdings) :
                     j # i => new.holdings[j] = old.holdings[j]]_vars

\* a partial sale of "A" has happened in a portfolio that also holds "B",
\* and "A" had been bought at two prices
C26_Witness ==
    /\ lastCall.op = "sellStock"
    /\ lastCall.error = NoError
    /\ Len(transactions) = 4
    /\ transactions[3].type = "BUY" /\ transactions[3].symbol = "A"
    /\ transactions[4].type = "SELL" /\ transactions[4].symbol = "A"
    /\ transactions[4].quantity > 0
    /\ \E p \in DOMAIN portfolios :
          /\ Len(portfolios[p].holdings) = 2
          /\ portfolios[p].holdings[1].averageCost[2] # 1

RECURSIVE C27_Net(_, _, _)
\* BUY quantities minus SELL quantities of the transactions of ts for the
\* portfolio and symbol
C27_Net(ts, portfolioId, symbol) ==
    IF ts = <<>> THEN 0
    ELSE (IF ts[1].portfolioId = portfolioId /\ ts[1].symbol = symbol
          THEN (IF ts[1].type = "BUY" THEN ts[1].quantity ELSE 0 - ts[1].quantity)
          ELSE 0)
         + C27_Net(Tail(ts), portfolioId, symbol)

\* the quantity held of a symbol, 0 when there is no holding of it
C27_Held(holdings, symbol) ==
    IF FindHolding(holdings, symbol) = 0 THEN 0
    ELSE holdings[FindHolding(holdings, symbol)].quantity

\* C27: in every state a process reaches by buyStock, sellStock and
\* executeRecommendation calls, for every portfolio and symbol the held
\* quantity (0 without a holding) is the sum of the BUY quantities minus the
\* sum of the SELL quantities of the portfolio's transactions for the symbol
\* in the in-memory log.
C27_QuantityTracksLog ==
    \A p \in DOMAIN portfolios, s \in Symbols :
        C27_Held(portfolios[p].holdings, s) = C27_Net(transactions, p, s)

\* after a purchase and a partial sale of the same symbol
C27_Witness ==
    /\ Len(transactions) = 2
    /\ transactions[1].type = "BUY"
    /\ transactions[2].type = "SELL"
    /\ transactions[1].quantity = 2
    /\ transactions[2].quantity = 1
    /\ \E p \in DOMAIN portfolios :
          /\ Len(portfolios[p].holdings) = 1
          /\ portfolios[p].holdings[1].quantity = 1

\* the trade of the step is in memory: one more transaction, and the
\* ledger of its portfolio changed by it
C29_TradeKept ==
    /\ C23_AppendedOne(IF lastCall'.op = "buyStock" THEN "BUY" ELSE "SELL")
    /\ \A k \in 1..Len(transactions) : transactions'[k] = transactions[k]

\* no record of the file has the id of the transaction just appended
C29_NotInFile(file) ==
    \A k \in 1..Len(file) : file[k].id # transactions'[Len(transactions')].id

\* C29: a save failure during buyStock or sellStock is not rolled back.
\* When savePortfolios fails, the portfolio and the log in memory keep the
\* trade and neither file changes; when savePortfolios succeeds and
\* saveTransactions fails, portfolios.json holds the portfolio with the
\* trade's cash and holding change and transactions.json has no record of
\* the trade.
C29_NoRollback ==
    [][lastCall'.op \in {"buyStock", "sellStock"} =>
         /\ lastCall'.error = "Failed to save portfolios" =>
               /\ C29_TradeKept
               /\ portfoliosFile' = portfoliosFile
               /\ transactionsFile' = transactionsFile
               /\ C29_NotInFile(transactionsFile')
         /\ lastCall'.error = "Failed to save transactions" =>
               /\ C29_TradeKept
               /\ portfoliosFile' = PortfoliosJson(portfolios')
               /\ transactionsFile' = transactionsFile
               /\ C29_NotInFile(transactionsFile')]_vars

\* a sale whose saveTransactions failed: portfolios.json has the cash after
\* the sale, transactions.json still ends with the purchase
C29_Witness ==
    /\ lastCall.op = "sellStock"
    /\ lastCall.error = "Failed to save transactions"
    /\ Len(transactions) = 2
    /\ Len(transactionsFile) = 1
    /\ portfoliosFile = PortfoliosJson(portfolios)
    /\ \E p \in DOMAIN portfolios :
          portfoliosFile[p].currentCash # portfoliosFile[p].initialCapital

\* recommendation r is stored and its portfolio is gone
C30_Orphan(r) ==
    /\ FindRecommendation(recommendations, r) # 0
    /\ recommendations[FindRecommendation(recommendations, r)].portfolioId
            \notin DOMAIN portfolios

\* the call changed nothing in memory or in the files
C30_Nothing == UNCHANGED <<memory, files>>

\* deletePortfolio leaves the recommendations and their file as they are
C30_DeleteKeeps ==
    lastCall'.op = "deletePortfolio" =>
        /\ recommendations' = recommendations
        /\ recommendationsFile' = recommendationsFile

\* C30 as stated: deletePortfolio leaves the recommendation collection
\* unchanged, and executeRecommendation on any recommendation of a deleted
\* portfolio fails with portfolio-not-found, appends no transaction and
\* leaves the recommendation unexecuted.
C30_AnyOrphanNotFound ==
    [][/\ C30_DeleteKeeps
       /\ lastCall'.op = "executeRecommendation" =>
            \A r \in RecommendationIds, e \in ExecuteEnvs :
                \/ ~C30_Orphan(r)
                \/ /\ lastCall'.error = "Portfolio not found"
                   /\ transactions' = transactions
                   /\ ~recommendations'[FindRecommendation(recommendations, r)].executed
                \/ ~ExecuteRecommendation(r, e.sizingFetch, e.fetch, e.portfoliosOk,
                                          e.transactionsOk, e.recommendationsOk)]_vars

\* C30: deletePortfolio leaves the recommendation collection unchanged, so
\* the recommendations of the deleted portfolio stay stored;
\* executeRecommendation on one of them that has not been executed fails
\* with portfolio-not-found, and on one that has been executed with
\* already-executed; either way it fetches no price, appends no transaction
\* and changes neither the recommendation nor any file.
C30_OrphanRecommendations ==
    [][/\ C30_DeleteKeeps
       /\ lastCall'.op = "executeRecommendation" =>
            \A r \in RecommendationIds, e \in ExecuteEnvs :
                \/ ~C30_Orphan(r)
                \/ /\ lastCall'.error =
                        IF recommendations[FindRecommendation(recommendations, r)].executed
                        THEN "Recommendation has already been executed"
                        ELSE "Portfolio not found"
                   /\ C30_Nothing
                \/ ~ExecuteRecommendation(r, e.sizingFetch, e.fetch, e.portfoliosOk,
                                          e.transactionsOk, e.recommendationsOk)]_vars

\* executeRecommendation has just failed on the unexecuted recommendation of
\* a deleted portfolio
C30_Witness ==
    /\ lastCall.op = "executeRecommendation"
    /\ lastCall.error = "Portfolio not found"
    /\ DOMAIN portfolios = {}
    /\ Len(recommendations) = 1
    /\ ~recommendations[1].executed
    /\ nextPortfolioId > 1

\* recommendation rec is one executeRecommendation has no trade for, given
\* the price its sizing fetch returns: a HOLD, a SELL without a quantity, or
\* a BUY without one whose derived quantity is 0
C28_NoTrade(rec, sizingFetch) ==
    LET unset == rec.quantity \in {NoQuantity, SomeQuantity(0)}
    IN \/ rec.action = "HOLD"
       \/ rec.action = "SELL" /\ unset
       \/ /\ rec.action = "BUY" /\ unset
          /\ sizingFetch # FetchFailed
          /\ DerivedQuantity(portfolios[rec.portfolioId].currentCash, sizingFetch) = 0

\* the execution made no trade and marked recommendation k executed; the
\* mark is in recommendations.json when the write succeeded
C28_MarkedOnly(k, recommendationsOk) ==
    /\ transactions' = transactions
    /\ \A p \in DOMAIN portfolios :
          /\ portfolios'[p].currentCash = portfolios[p].currentCash
          /\ portfolios'[p].holdings = portfolios[p].holdings
    /\ portfoliosFile' = portfoliosFile
    /\ transactionsFile' = transactionsFile
    /\ recommendations'[k].executed
    /\ recommendations'[k].executedAt # NoDate
    /\ IF recommendationsOk
       THEN /\ lastCall'.error = NoError
            /\ recommendationsFile' = RecommendationsJson(recommendations')
            /\ recommendationsFile'[k].executed
       ELSE /\ lastCall'.error = "Failed to save recommendations"
            /\ recommendationsFile' = recommendationsFile

\* C28: executeRecommendation on an unexecuted HOLD recommendation, SELL
\* recommendation without a quantity, or BUY recommendation whose derived
\* quantity is 0 makes no trade (no transaction, cash and holdings as
\* before, no ledger file written), yet marks the recommendation executed
\* and writes the recommendations file.
C28_ExecutedWithoutTrade ==
    [][lastCall'.op = "executeRecommendation" =>
         \A k \in 1..Len(recommendations), e \in ExecuteEnvs :
            \/ recommendations[k].executed
            \/ recommendations[k].portfolioId \notin DOMAIN portfolios
            \/ ~C28_NoTrade(recommendations[k], e.sizingFetch)
            \/ C28_MarkedOnly(k, e.recommendationsOk)
            \/ ~ExecuteRecommendation(recommendations[k].id, e.sizingFetch, e.fetch,
                                      e.portfoliosOk, e.transactionsOk,
                                      e.recommendationsOk)]_vars

\* a HOLD recommendation is marked executed in memory and in the file, and
\* the log is empty
C28_Witness ==
    /\ lastCall.op = "executeRecommendation"
    /\ lastCall.error = NoError
    /\ Len(recommendations) = 1
    /\ recommendations[1].action = "HOLD"
    /\ recommendations[1].executed
    /\ recommendationsFile[1].executed
    /\ transactions = <<>>


\* the handler returned a result with this error text, and no call on
\* MarketDataService was made
C21_ErrorResult(t, message) ==
    /\ t.error = NoError
    /\ t.result.isError
    /\ t.result.text = <<"Error executing ", t.name, ": ", message>>
    /\ t.marketData = <<>>

\* C21: every tools/call request is answered with a result and no error
\* escapes the handler; a name that is no tool gives isError with 'Unknown
\* tool: <name>', and get_current_price or validate_symbol without a symbol
\* gives isError with 'Symbol is required', both without a call on
\* MarketDataService.
C21_AlwaysAResult ==
    toolCall.name # "" =>
        /\ toolCall.error = NoError
        /\ toolCall.result.isError \in BOOLEAN
        /\ toolCall.name \notin ToolNames =>
                C21_ErrorResult(toolCall, <<"Unknown tool: ", toolCall.name>>)
        /\ ( /\ toolCall.name \in {"get_current_price", "validate_symbol"}
             /\ Not(toolCall.arguments.symbol) ) =>
                C21_ErrorResult(toolCall, "Symbol is required")

\* validate_symbol was called with an empty symbol and answered with an
\* error result
C21_Witness ==
    /\ toolCall.name = "validate_symbol"
    /\ toolCall.arguments.symbol = Str("")
    /\ toolCall.error = NoError
    /\ toolCall.result.isError


\* C22: isConnected() is true exactly when the connect() or disconnect()
\* that ended last was a connect() that passed the health check; a
\* getMarketData, validateSymbol or searchSymbols call made while it is
\* false fails with 'MCP client not connected' and sends no request.
C22_ConnectionFlag ==
    [][ /\ mcpClient'.connected <=> mcpClient'.settled = "passed"
        /\ ( /\ lastCall'.op \in {"getMarketData", "validateSymbol", "searchSymbols"}
             /\ ~mcpClient.connected ) =>
                /\ lastCall'.error = "MCP client not connected"
                /\ lastCall'.requests = <<>> ]_vars

\* after a connect() that passed and a disconnect(), validateSymbol was
\* refused
C22_Witness ==
    /\ mcpClient.settled = "disconnected"
    /\ ~mcpClient.connected
    /\ lastCall.op = "validateSymbol"
    /\ lastCall.error = "MCP client not connected"

====
